---- MODULE Spec2Model ----
(***************************************************************************)
(* Model of the printmas firmware core: the Niimbot frame codec            *)
(* (NiimbotPrinter::BuildPacket / ParsePacket), the receive reassembly      *)
(* buffer (NiimbotPrinter::ProcessReceivedData), the response interpreter  *)
(* (NiimbotPrinter::HandleResponse) and the BLE link session               *)
(* (BLEClient::HandleGapEvent / HandleGattcEvent / SendData) together with *)
(* the wiring of app_main.                                                 *)
(*                                                                         *)
(* Three specifications share the variables:                               *)
(*   CodecSpec  BuildPacket / ParsePacket applied to bounded inputs        *)
(*   RxSpec     ProcessReceivedData fed a byte stream in chunks            *)
(*   Spec       the link session, the transport events and the main loop   *)
(***************************************************************************)
EXTENDS Integers, Sequences, FiniteSets, TLC

\* ------------------------------------------------------------------------
\* Bounds of the model
\* ------------------------------------------------------------------------
MaxShortPayload == 2
MaxGarbageLen == 2
MaxCalls == 3
MaxCycles == 2
MaxSearchRes == 2
MaxWrites == 2
MaxImageHeight == 2
MaxGives == 3
MaxPrints == 1
MaxResponses == 2
MaxBufLen == 8

\* ------------------------------------------------------------------------
\* Program constants
\* ------------------------------------------------------------------------
kPacketStart1 == 85
kPacketStart2 == 85
kPacketEnd1 == 170
kPacketEnd2 == 170
kPacketBufSize == 512
kPktSize == 256
kInvalidHandle == 0
ESP_GATT_IF_NONE == 255
kPaperWidthDots == 384
kPaperHeightDots == 240
kRowBytes == 48
kRowPktSize == 256
\* NiimbotPrinter::RequestCode
HEARTBEAT == 220
SET_LABEL_TYPE == 35
SET_LABEL_DENSITY == 33
START_PRINT == 1
END_PRINT == 243
START_PAGE_PRINT == 3
END_PAGE_PRINT == 227
SET_DIMENSION == 19
GET_PRINT_STATUS == 163
PRINT_BITMAP_ROW == 133

\* ------------------------------------------------------------------------
\* Byte arithmetic
\* ------------------------------------------------------------------------
RECURSIVE XorBits(_, _, _)
XorBits(a, b, n) ==
  IF n = 0 THEN 0
  ELSE (((a % 2) + (b % 2)) % 2) + 2 * XorBits(a \div 2, b \div 2, n - 1)

\* the ^ operator on two uint8_t values
Xor(a, b) == XorBits(a, b, 8)

\* static_cast<uint8_t>(n)
U8(n) == n % 256

\* data[lo] ^ ... ^ data[hi], folded by halves to keep the evaluation shallow
RECURSIVE XorRange(_, _, _)
XorRange(data, lo, hi) ==
  IF lo > hi THEN 0
  ELSE IF lo = hi THEN data[lo]
  ELSE LET mid == (lo + hi) \div 2
       IN Xor(XorRange(data, lo, mid), XorRange(data, mid + 1, hi))

\* the checksum loops of BuildPacket and ParsePacket: checksum ^= data[i]
\* for every i, starting from acc
ChecksumLoop_skiplast(acc, data) == Xor(acc, XorRange(data, 1, Len(data) - 1))

ChecksumLoop(acc, data) == Xor(acc, XorRange(data, 1, Len(data)))

\* ------------------------------------------------------------------------
\* FrameCodec
\* ------------------------------------------------------------------------
\* The checksum BuildPacket writes: type ^ (uint8_t)data_len ^ data[0] ^ ...
BuildChecksum_nolen(type, data) == ChecksumLoop(type, data)

\* uint8_t checksum = type ^ static_cast<uint8_t>(data_len); checksum ^= data[i]
BuildChecksum(type, data) == ChecksumLoop(Xor(type, U8(Len(data))), data)

\* BuildPacket(buf, buf_size, type, data, data_len): the bytes written to buf,
\* <<>> when it returns 0.  The returned length is Len of the result.
BuildPacket(buf_size, type, data) ==
  IF buf_size < Len(data) + 7 THEN <<>>
  ELSE <<kPacketStart1, kPacketStart2, type, U8(Len(data))>> \o data
         \o <<BuildChecksum(type, data), kPacketEnd1, kPacketEnd2>>

ParseFail(why) == [ok |-> FALSE, why |-> why, type |-> 0, data |-> <<>>, data_len |-> 0]

\* ParsePacket(buf, len, &type, data, &data_len).  `why` names the return
\* statement taken; the code itself returns only the boolean.
ParsePacket(buf) ==
  LET len == Len(buf) IN
  IF len < 7 THEN ParseFail("short")
  ELSE IF buf[1] # kPacketStart1 \/ buf[2] # kPacketStart2 THEN ParseFail("bad_start")
  ELSE
    LET type == buf[3]
        pkt_data_len == buf[4]
    IN
    IF len < pkt_data_len + 7 THEN ParseFail("incomplete")
    ELSE IF buf[6 + pkt_data_len] # kPacketEnd1 \/ buf[7 + pkt_data_len] # kPacketEnd2
      THEN ParseFail("bad_end")
    ELSE
      LET data == SubSeq(buf, 5, 4 + pkt_data_len)
          checksum == ChecksumLoop(Xor(type, U8(pkt_data_len)), data)
      IN
      IF checksum # buf[5 + pkt_data_len] THEN ParseFail("checksum")
      ELSE [ok |-> TRUE, why |-> "ok", type |-> type, data |-> data,
            data_len |-> pkt_data_len]

\* ------------------------------------------------------------------------
\* Response interpreter
\* ------------------------------------------------------------------------
\* Status{} of printer.h
StatusInit == [closing_state |-> 0, power_level |-> 0, paper_state |-> 0,
               rfid_read_state |-> 0]

\* data[i] of the C code (0-based)
At_onebased(data, i) == data[i]

At(data, i) == data[i + 1]

\* the switch (data_len) of the heartbeat branch
HeartbeatStatus_whole(st, data) ==
  LET n == Len(data) IN
  IF n = 20 THEN [StatusInit EXCEPT !.paper_state = At(data, 18),
                                    !.rfid_read_state = At(data, 19)]
  ELSE IF n = 13 THEN [closing_state |-> At(data, 9), power_level |-> At(data, 10),
                       paper_state |-> At(data, 11), rfid_read_state |-> At(data, 12)]
  ELSE IF n = 19 THEN [closing_state |-> At(data, 15), power_level |-> At(data, 16),
                       paper_state |-> At(data, 17), rfid_read_state |-> At(data, 18)]
  ELSE IF n = 10 THEN [StatusInit EXCEPT !.closing_state = At(data, 8),
                                         !.power_level = At(data, 9)]
  ELSE IF n = 9 THEN [StatusInit EXCEPT !.closing_state = At(data, 8)]
  ELSE StatusInit

HeartbeatStatus(st, data) ==
  LET n == Len(data) IN
  IF n = 20 THEN [st EXCEPT !.paper_state = At(data, 18),
                            !.rfid_read_state = At(data, 19)]
  ELSE IF n = 13 THEN [closing_state |-> At(data, 9), power_level |-> At(data, 10),
                       paper_state |-> At(data, 11), rfid_read_state |-> At(data, 12)]
  ELSE IF n = 19 THEN [closing_state |-> At(data, 15), power_level |-> At(data, 16),
                       paper_state |-> At(data, 17), rfid_read_state |-> At(data, 18)]
  ELSE IF n = 10 THEN [st EXCEPT !.closing_state = At(data, 8),
                                 !.power_level = At(data, 9)]
  ELSE IF n = 9 THEN [st EXCEPT !.closing_state = At(data, 8)]
  ELSE st

\* the guard of the heartbeat branch: type == 0xDD && data_len >= 9, reached
\* only when the frame is not an error frame (0xDB)
IsHeartbeat_anylen(type, data) == type # 219 /\ type = 221

IsHeartbeat(type, data) == type # 219 /\ type = 221 /\ Len(data) >= 9

\* HandleResponse(type, data, data_len) on the printer state
\* p = [status, ready, fired]; fired counts the times the ready branch
\* (ready_ = true; ready_callback_()) was taken.
HandleResponse_refire(p, type, data) ==
  IF IsHeartbeat(type, data)
  THEN [status |-> HeartbeatStatus(p.status, data),
        ready |-> TRUE,
        fired |-> p.fired + 1]
  ELSE p

HandleResponse(p, type, data) ==
  IF IsHeartbeat(type, data)
  THEN [status |-> HeartbeatStatus(p.status, data),
        ready |-> TRUE,
        fired |-> IF p.ready THEN p.fired ELSE p.fired + 1]
  ELSE p

\* HandleResponse applied to the frames of one ProcessReceivedData call, in
\* the order the parse loop delivers them
RECURSIVE HandleAll(_, _, _)
HandleAll(p, frames, i) ==
  IF i > Len(frames) THEN p
  ELSE HandleAll(HandleResponse(p, frames[i].type, frames[i].data), frames, i + 1)

\* ------------------------------------------------------------------------
\* ReassemblyBuffer
\* ------------------------------------------------------------------------
SetMin(S) == CHOOSE x \in S : \A y \in S : x <= y

\* the scan stopping at the first 0x55, whatever follows it
FindStart_onebyte(buf) ==
  LET hits == {i \in 0..(Len(buf) - 2) : buf[i + 1] = kPacketStart1}
  IN IF hits = {} THEN Len(buf) - 1 ELSE SetMin(hits)

\* the start-marker scan: the first index (0-based) holding 0x55 0x55, or
\* packet_buf_len_ - 1 when there is none
FindStart(buf) ==
  LET hits == {i \in 0..(Len(buf) - 2) :
                 buf[i + 1] = kPacketStart1 /\ buf[i + 2] = kPacketStart2}
  IN IF hits = {} THEN Len(buf) - 1 ELSE SetMin(hits)

\* the one-byte resync: memmove(packet_buf_, packet_buf_ + 1, ...)
ResyncDrop_all(b) == <<>>

ResyncDrop_none(b) == b

ResyncDrop(b) == Tail(b)

\* expected_len = packet_buf_[3] + 7
ExpectedLen_nooverhead(b) == b[4]

ExpectedLen(b) == b[4] + 7

\* the while (packet_buf_len_ >= 7) loop.  r = [buf, out, skips]: the buffer,
\* the frames handed to HandleResponse and the number of one-byte discards.
RECURSIVE ParseLoop(_)
ParseLoop(r) ==
  IF Len(r.buf) < 7 THEN r
  ELSE
    LET start_idx == FindStart(r.buf)
        b == SubSeq(r.buf, start_idx + 1, Len(r.buf))
    IN
    IF Len(b) < 7 THEN [r EXCEPT !.buf = b]
    ELSE
      LET pr == ParsePacket(b) IN
      IF pr.ok
      THEN ParseLoop([buf |-> SubSeq(b, pr.data_len + 8, Len(b)),
                      out |-> Append(r.out, [type |-> pr.type, data |-> pr.data]),
                      skips |-> r.skips])
      ELSE
        LET expected_len == ExpectedLen(b) IN
        IF Len(b) < expected_len THEN [r EXCEPT !.buf = b]
        ELSE ParseLoop([buf |-> ResyncDrop(b), out |-> r.out, skips |-> r.skips + 1])

\* the append of ProcessReceivedData: the overflow reset followed by memcpy.
\* The result is the buffer content, packet_buf_len_ being its length.
AppendChunk_noreset(buf, data) == buf \o data

AppendChunk_replace(buf, data) == data

AppendChunk(buf, data) ==
  IF Len(buf) + Len(data) > kPacketBufSize THEN data ELSE buf \o data

\* memcpy(packet_buf_ + packet_buf_len_, data, len) writes past packet_buf_[512]
WritesPastBuffer(buf, data) == Len(AppendChunk(buf, data)) > kPacketBufSize


\* ------------------------------------------------------------------------
\* State
\* ------------------------------------------------------------------------
VARIABLES
  \* NiimbotPrinter
  packet_buf_,      \* packet_buf_[0 .. packet_buf_len_ - 1]
  status_,          \* Status status_
  ready_,           \* bool ready_
  ready_fired,      \* times HandleResponse took the ready branch
  oob,              \* a memcpy wrote past packet_buf_[512] or pkt_data[256]
  \* BuildPacket / ParsePacket applied to one input
  c_pc, c_type, c_data, c_buf_size, c_pkt, c_parsed,
  c_flip,           \* the bit flipped in c_pkt: [pos, bit], pos 0 for none
  \* ProcessReceivedData fed one byte stream
  rx_stream,        \* the stream and what it is made of
  rx_pos,           \* bytes of the stream fed so far
  rx_ncalls,        \* ProcessReceivedData calls so far
  rx_out,           \* frames handed to HandleResponse so far
  rx_skips,         \* one-byte discards so far
  rx_last           \* the last call: chunk, frames it delivered, overflow

printerVars == <<packet_buf_, status_, ready_, ready_fired, oob>>
codecVars == <<c_pc, c_type, c_data, c_buf_size, c_pkt, c_parsed, c_flip>>
rxVars == <<rx_stream, rx_pos, rx_ncalls, rx_out, rx_skips, rx_last>>

\* ------------------------------------------------------------------------
\* Inputs
\* ------------------------------------------------------------------------
SeqsUpTo(S, n) == UNION {[1..k -> S] : k \in 0..n}

\* n bytes none of which is 0x55 or 0xAA
Fill(n, b) == [i \in 1..n |-> 1 + ((b + i) % 80)]

TypeSet == {0, 2, 85, 170, 219, 221, 255}
LongLens == {9, 13, 247, 248, 249, 255, 256, 300}
\* a payload whose second and third byte are the end marker
MarkerPayload == <<0, kPacketEnd1, kPacketEnd2, 0>>

PayloadSet ==
  SeqsUpTo({0, 85, 170}, MaxShortPayload) \cup {Fill(n, 7) : n \in LongLens}
    \cup {MarkerPayload}
BufSizes == {8, kPktSize, kPacketBufSize}

NoStream == [kind |-> "none", bytes |-> <<>>, garbage |-> <<>>, bad |-> <<>>,
             frame |-> [type |-> 0, data |-> <<>>], cuts |-> {}]
NoResp == [op |-> "none", type |-> 0, data |-> <<>>,
           before |-> [status |-> StatusInit, ready |-> FALSE, fired |-> 0]]
NoFlip == [pos |-> 0, bit |-> 0]
NoCall == [chunk |-> <<>>, out |-> <<>>, overflow |-> FALSE, before |-> <<>>]

PrinterInit ==
  /\ packet_buf_ = <<>>
  /\ status_ = StatusInit
  /\ ready_ = FALSE
  /\ ready_fired = 0
  /\ oob = FALSE

CodecIdle ==
  /\ c_pc = "idle" /\ c_type = 0 /\ c_data = <<>> /\ c_buf_size = 0
  /\ c_pkt = <<>> /\ c_parsed = ParseFail("none")
  /\ c_flip = NoFlip

RxIdle ==
  /\ rx_stream = NoStream /\ rx_pos = 0 /\ rx_ncalls = 0 /\ rx_out = <<>>
  /\ rx_skips = 0 /\ rx_last = NoCall

\* ------------------------------------------------------------------------
\* Link session, transport and tasks: state
\* ------------------------------------------------------------------------
VARIABLES
  \* BLEClient
  connected_,       \* bool connected_
  has_service_,     \* bool has_service_
  gattc_if_,        \* esp_gatt_if_t gattc_if_
  profile,          \* profiles_[kProfileAppId]
  \* NiimbotPrinter
  write_semaphore_, \* binary semaphore: 1 when a completion is pending
  \* the Bluetooth stack, seen from the callbacks
  boot,             \* start-up chain: "reg", "privacy", "scan_params", "run", "dead"
  scan,             \* "off", "timed" (start_scanning(30)), "forever" (start_scanning(0))
  t_conn,           \* "none", "opening" (enh_open issued), "up"
  t_req,            \* requests issued on the connection and not yet answered
  t_nres,           \* search results delivered for the running search
  t_writes,         \* characteristic writes accepted and not yet completed
  t_cccd,           \* the peer has notifications enabled
  \* the two execution contexts
  main_pc,          \* app_main loop: "idle" (Touch::Wait) or "wait" (in SendPacket)
  bt_pc,            \* callback task: "idle" or "wait" (in SendPacket, in a callback)
  main_res,         \* what the last SendPacket of the main loop returned
  bt_res,           \* what the last SendPacket of the connected callback returned
  \* history kept for the properties
  cycle_log,        \* transport events of the current connection cycle
  cycles,           \* connection attempts started
  link_ready,       \* the connected notification fired in this cycle
  hb_seen,          \* a heartbeat response of >= 9 bytes arrived in this cycle
  ready_rises,      \* false -> true changes of ready_ in this cycle
  last_evt,         \* the last transport event handled: name, failed
  sd_last           \* the last SendData call

\* ------------------------------------------------------------------------
\* Command engine: the Print job and the completion signal
\* ------------------------------------------------------------------------
VARIABLES
  \* NiimbotPrinter::Print, running in the main loop
  p_pc,             \* "idle", "run" (inside Print), "done" (Print returned)
  p_step,           \* the command Print issued last
  p_y,              \* loop variable y of the row loop
  p_h,              \* image.h
  p_log,            \* commands issued by Print, in order: code, payload
  p_res,            \* what Print returned
  \* history kept for the properties
  cmd_wait,         \* wait_for_response of the last SendPacket of the main loop
  sig_in_wait,      \* a write completion was signalled during that call's wait
  gives             \* completions signalled since the slot was last taken

printVars == <<p_pc, p_step, p_y, p_h, p_log, p_res>>
cmdVars == <<cmd_wait, sig_in_wait, gives>>

\* ------------------------------------------------------------------------
\* Main loop around Print: state
\* ------------------------------------------------------------------------
VARIABLES
  err_in_job,       \* an error frame (0xDB) was handled while Print was running
  ui,               \* what app_main did after the last Print: "none", "error"
                    \* (showError) or "printed"
  prints            \* Print calls made so far

uiVars == <<err_in_job, ui, prints>>

\* ------------------------------------------------------------------------
\* HandleResponse and Reset called directly: state
\* ------------------------------------------------------------------------
VARIABLES
  h_n,              \* calls made so far
  h_last            \* the last call: what was called, the frame, the printer
                    \* state before it

respVars == <<h_n, h_last>>

\* ------------------------------------------------------------------------
\* The parse loop of ProcessReceivedData taken one iteration at a time: state
\* ------------------------------------------------------------------------
VARIABLES
  l_pc,             \* "idle", "loop" (at the loop condition) or "exit"
  l_start,          \* the buffer the loop was entered with
  l_out,            \* frames handed to HandleResponse so far
  l_n,              \* iterations made so far
  l_last            \* the last iteration: buffer before it, what it did

loopVars == <<l_pc, l_start, l_out, l_n, l_last>>

NoIter == [kind |-> "none", before |-> <<>>, start_idx |-> 0, declared |-> 0]

LoopIdle == l_pc = "idle" /\ l_start = <<>> /\ l_out = <<>> /\ l_n = 0 /\ l_last = NoIter

\* ------------------------------------------------------------------------
\* Whose write a completion belongs to: state
\* ------------------------------------------------------------------------
VARIABLES
  w_ahead,          \* completions still to come up to and including the one
                    \* of the write issued by the last waiting SendPacket
                    \* (0: that write has completed, or none was issued)
  own_done          \* that completion: "none" (not delivered), "ok", "failed"

ownVars == <<w_ahead, own_done>>

RespIdle == h_n = 0 /\ h_last = NoResp

bleVars == <<connected_, has_service_, gattc_if_, profile>>
envVars == <<boot, scan, t_conn, t_req, t_nres, t_writes, t_cccd>>
taskVars == <<main_pc, bt_pc, main_res, bt_res, write_semaphore_>>
histVars == <<cycle_log, cycles, link_ready, hb_seen, ready_rises, last_evt, sd_last>>
sessionVars == <<bleVars, envVars, taskVars, histVars, printVars, cmdVars, uiVars, ownVars>>
linkVars == <<sessionVars, respVars, loopVars>>

\* the interface id the stack assigns at registration
AppIf == 3

\* profiles_[kProfileAppId] as Initialize() sets it
ProfileInit == [gattc_if |-> ESP_GATT_IF_NONE, conn_id |-> 0,
                service_start_handle |-> 0, service_end_handle |-> 0,
                char_handle |-> 0]

NoSend == [called |-> FALSE, forwarded |-> FALSE, link_ready |-> FALSE,
           reported |-> "none", len |-> 0]
NoEvent == [name |-> "none", failed |-> FALSE]

\* the state when Initialize() has returned ESP_OK and app_main enters its loop
LinkInit ==
  /\ connected_ = FALSE /\ has_service_ = FALSE
  /\ gattc_if_ = ESP_GATT_IF_NONE
  /\ profile = ProfileInit
  /\ write_semaphore_ = 0
  /\ boot = "reg" /\ scan = "off" /\ t_conn = "none" /\ t_req = {}
  /\ t_nres = 0 /\ t_writes = 0 /\ t_cccd = FALSE
  /\ main_pc = "idle" /\ bt_pc = "idle" /\ main_res = "none" /\ bt_res = "none"
  /\ cycle_log = <<>> /\ cycles = 0 /\ link_ready = FALSE /\ hb_seen = FALSE
  /\ ready_rises = 0
  /\ last_evt = NoEvent /\ sd_last = NoSend
  /\ p_pc = "idle" /\ p_step = "none" /\ p_y = 0 /\ p_h = 0 /\ p_log = <<>>
  /\ p_res = "none"
  /\ cmd_wait = FALSE /\ sig_in_wait = FALSE /\ gives = 0
  /\ err_in_job = FALSE /\ ui = "none" /\ prints = 0
  /\ RespIdle /\ LoopIdle
  /\ w_ahead = 0 /\ own_done = "none"

\* ------------------------------------------------------------------------
\* CodecSpec: BuildPacket, then ParsePacket on what it built
\* ------------------------------------------------------------------------
CodecInit ==
  /\ PrinterInit /\ RxIdle /\ LinkInit
  /\ c_pc = "start"
  /\ c_type \in TypeSet
  /\ c_data \in PayloadSet
  /\ c_buf_size \in BufSizes
  /\ c_pkt = <<>>
  /\ c_parsed = ParseFail("none")
  /\ c_flip = NoFlip

Build ==
  /\ c_pc = "start"
  /\ c_pkt' = BuildPacket(c_buf_size, c_type, c_data)
  /\ c_pc' = "built"
  /\ UNCHANGED <<c_type, c_data, c_buf_size, c_parsed, c_flip>>
  /\ UNCHANGED <<printerVars, rxVars, linkVars>>

\* 1 << bit
Bit(bit) == 2 ^ bit

\* the bytes of a built frame a bit is flipped in: the length byte and the
\* first and the last payload byte (1-based positions in the frame)
FlipPositions(pkt) ==
  {4} \cup (IF pkt[4] > 0 THEN {5, 4 + pkt[4]} ELSE {})

\* one bit of the built frame is flipped on its way to ParsePacket
Flip ==
  /\ c_pc = "built"
  /\ c_pkt # <<>>
  /\ \E pos \in FlipPositions(c_pkt), bit \in 0..7 :
       /\ c_pkt' = [c_pkt EXCEPT ![pos] = Xor(@, Bit(bit))]
       /\ c_flip' = [pos |-> pos, bit |-> bit]
  /\ c_pc' = "flipped"
  /\ UNCHANGED <<c_type, c_data, c_buf_size, c_parsed>>
  /\ UNCHANGED <<printerVars, rxVars, linkVars>>

Parse ==
  /\ c_pc \in {"built", "flipped"}
  /\ c_pkt # <<>>
  /\ c_parsed' = ParsePacket(c_pkt)
  /\ c_pc' = IF c_pc = "built" THEN "parsed" ELSE "parsed_flipped"
  /\ UNCHANGED <<c_type, c_data, c_buf_size, c_pkt, c_flip>>
  /\ UNCHANGED <<printerVars, rxVars, linkVars>>

CodecNext == Build \/ Flip \/ Parse

\* ------------------------------------------------------------------------
\* ProcessReceivedData as a step on the printer state
\* ------------------------------------------------------------------------
\* what one call does with a chunk that fits: the parse loop on the appended
\* buffer; r.out are the frames it hands to HandleResponse
Drain(data) ==
  ParseLoop([buf |-> AppendChunk(packet_buf_, data), out |-> <<>>, skips |-> 0])

\* len <= sizeof(packet_buf_): the append stays inside the buffer, the parse
\* loop runs and every frame goes to HandleResponse.
ProcessInBounds(data) ==
  LET r == Drain(data)
      p == HandleAll([status |-> status_, ready |-> ready_, fired |-> ready_fired],
                     r.out, 1)
  IN
  /\ packet_buf_' = r.buf
  /\ status_' = p.status
  /\ ready_' = p.ready
  /\ ready_fired' = p.fired
  /\ oob' = oob

\* len > sizeof(packet_buf_): memcpy writes past packet_buf_ into the members
\* that follow it (packet_buf_len_, status_, ready_).  The outcome is
\* undefined: either the length ends up as len, beyond the capacity, or the
\* overwritten members hold bytes of the chunk.
ProcessPastBuffer(data) ==
  /\ oob' = TRUE
  /\ \/ /\ packet_buf_' = data
        /\ UNCHANGED <<status_, ready_>>
     \/ /\ packet_buf_' = <<>>
        /\ status_' = [closing_state |-> data[Len(data)], power_level |-> 0,
                       paper_state |-> 0, rfid_read_state |-> 0]
        /\ ready_' \in BOOLEAN
  /\ UNCHANGED ready_fired

ProcessReceivedData(data) ==
  IF WritesPastBuffer(packet_buf_, data)
  THEN ProcessPastBuffer(data)
  ELSE ProcessInBounds(data)

\* the record of one call kept for the properties
Observe(data) ==
  LET past == WritesPastBuffer(packet_buf_, data)
      r == IF past THEN [buf |-> <<>>, out |-> <<>>, skips |-> 0] ELSE Drain(data)
  IN
  /\ rx_out' = rx_out \o r.out
  /\ rx_skips' = rx_skips + r.skips
  /\ rx_last' = [chunk |-> data, out |-> r.out, before |-> packet_buf_,
                 overflow |-> Len(packet_buf_) + Len(data) > kPacketBufSize]

\* ------------------------------------------------------------------------
\* RxSpec: a byte stream delivered to ProcessReceivedData in chunks
\* ------------------------------------------------------------------------
RxTypes == {2, 85, 221}
RxPayloads == SeqsUpTo({1, 85}, MaxShortPayload) \cup {Fill(9, 0)}
RxFrames == {[type |-> t, data |-> d] : t \in RxTypes, d \in RxPayloads}
FollowFrames == {[type |-> 221, data |-> Fill(9, 0)], [type |-> 2, data |-> <<1>>]}
GarbageSet == SeqsUpTo({0, 85, 255}, MaxGarbageLen) \cup {Fill(8, 0)}

Wire(f) == BuildPacket(kPktSize, f.type, f.data)

\* a built frame with its checksum byte replaced by a wrong value
Corrupt(pkt, x) == [pkt EXCEPT ![Len(pkt) - 2] = Xor(pkt[Len(pkt) - 2], x)]

\* the head of a frame that declares 255 payload bytes, followed by n bytes
FrameHead(n) == <<kPacketStart1, kPacketStart2, 2, 255>> \o Fill(n, 0)

GarbageFrameStreams ==
  {[kind |-> "garbage_frame", bytes |-> g \o Wire(f), garbage |-> g, bad |-> <<>>,
    frame |-> f, cuts |-> 1..Len(g \o Wire(f))] : g \in GarbageSet, f \in RxFrames}

CorruptStreams ==
  {[kind |-> "corrupt_frame", bytes |-> Corrupt(Wire(b), x) \o Wire(f), garbage |-> <<>>,
    bad |-> Corrupt(Wire(b), x), frame |-> f,
    cuts |-> {Len(Wire(b)) - 1, Len(Wire(b)), Len(Wire(b)) + 1,
              Len(Wire(b)) + Len(Wire(f))}] :
     b \in RxFrames, x \in {1, 255}, f \in FollowFrames}

\* a first part that stays buffered and a second part that does or does not
\* fit behind it; no part holds a complete valid frame
OverflowStreams ==
  {[kind |-> "overflow", bytes |-> pre \o post, garbage |-> pre, bad |-> post,
    frame |-> [type |-> 0, data |-> <<>>], cuts |-> {Len(pre), Len(pre) + Len(post)}] :
     pre \in {Fill(1, 0), Fill(6, 0), FrameHead(200), FrameHead(257)},
     post \in {Fill(n, 3) : n \in {252, 300, 506, 507, 511, 512}}
              \cup {Fill(n, 3) \o FrameHead(3) : n \in {300, 500}}}

OversizeStreams ==
  {[kind |-> "oversize", bytes |-> pre \o post, garbage |-> pre, bad |-> post,
    frame |-> [type |-> 0, data |-> <<>>], cuts |-> {Len(pre), Len(pre) + Len(post)}] :
     pre \in {Fill(1, 0), FrameHead(200)},
     post \in {Fill(n, 3) : n \in {513, 514}}}

\* valid frames sent back to back
SeqFrames == {[type |-> 221, data |-> Fill(9, 0)], [type |-> 2, data |-> <<1>>],
              [type |-> 85, data |-> <<85, 85>>]}

FrameLists ==
  [1..2 -> SeqFrames]
    \cup {<<[type |-> 219, data |-> <<>>], [type |-> 85, data |-> <<85, 85>>],
            [type |-> 221, data |-> Fill(9, 0)]>>,
          <<[type |-> 2, data |-> <<1>>], [type |-> 2, data |-> <<1>>],
            [type |-> 2, data |-> <<1>>]>>}

\* the frames of a list on the wire, one after the other
RECURSIVE WireAll(_, _)
WireAll(fs, k) == IF k = 0 THEN <<>> ELSE WireAll(fs, k - 1) \o Wire(fs[k])

\* a stream of valid frames; ends[k] is the offset at which frame k ends
FrameStream(fs, cuts) ==
  [kind |-> "frames", bytes |-> WireAll(fs, Len(fs)), garbage |-> <<>>, bad |-> <<>>,
   frame |-> fs[1], cuts |-> cuts, frames |-> fs,
   ends |-> [k \in 1..Len(fs) |-> Len(WireAll(fs, k))]]

\* every chunking of the short lists, and two frames that fill the buffer
FrameStreams ==
  {FrameStream(fs, 1..Len(WireAll(fs, Len(fs)))) : fs \in FrameLists}
    \cup {FrameStream(<<[type |-> 2, data |-> Fill(249, 7)],
                         [type |-> 221, data |-> Fill(249, 0)]>>,
                       {1, 255, 256, 257, 511, 512})}

RxStreams == GarbageFrameStreams \cup CorruptStreams \cup OverflowStreams
               \cup OversizeStreams \cup FrameStreams

RxInit ==
  /\ PrinterInit /\ CodecIdle /\ LinkInit
  /\ rx_stream \in RxStreams
  /\ rx_pos = 0 /\ rx_ncalls = 0 /\ rx_out = <<>> /\ rx_skips = 0
  /\ rx_last = NoCall

\* the transport hands the next n bytes of the stream to ProcessReceivedData
Feed ==
  /\ ~oob
  /\ rx_ncalls < MaxCalls
  /\ \E n \in 1..(Len(rx_stream.bytes) - rx_pos) :
       /\ rx_pos + n \in rx_stream.cuts
       /\ ProcessReceivedData(SubSeq(rx_stream.bytes, rx_pos + 1, rx_pos + n))
       /\ Observe(SubSeq(rx_stream.bytes, rx_pos + 1, rx_pos + n))
       /\ rx_pos' = rx_pos + n
  /\ rx_ncalls' = rx_ncalls + 1
  /\ UNCHANGED <<rx_stream, codecVars, linkVars>>

RxNext == Feed

\* ------------------------------------------------------------------------
\* Spec: the link session driven by transport events, and the main loop
\* ------------------------------------------------------------------------
\* what the printer may send once notifications are enabled
HbFrame == Wire([type |-> 221, data |-> Fill(9, 0)])
ShortHbFrame == Wire([type |-> 221, data |-> Fill(8, 0)])
ErrFrame == Wire([type |-> 219, data |-> <<1>>])
NotifyChunks == {HbFrame, ShortHbFrame, ErrFrame,
                 SubSeq(HbFrame, 1, 5), SubSeq(HbFrame, 6, Len(HbFrame))}

\* characteristic tables esp_ble_gattc_get_all_char may return
CharTables ==
  {<<>>,
   <<[uuid |-> "other", notify |-> TRUE, handle |-> 11]>>,
   <<[uuid |-> "char", notify |-> TRUE, handle |-> 12]>>,
   <<[uuid |-> "char", notify |-> FALSE, handle |-> 12]>>,
   <<[uuid |-> "other", notify |-> TRUE, handle |-> 11],
     [uuid |-> "char", notify |-> TRUE, handle |-> 12]>>}

\* descriptor tables esp_ble_gattc_get_all_descr may return
DescrTables == {<<>>, <<"other">>, <<"cccd">>, <<"other", "cccd">>, <<"cccd", "cccd">>}

Event(name, failed) == [name |-> name, failed |-> failed]

\* BLEClient::SendData: the guard on the characteristic handle
SendDataForwards(p) == p.char_handle # kInvalidHandle

\* xSemaphoreGive on the semaphore made by xSemaphoreCreateBinary: the one
\* slot is filled; a give on a full slot changes nothing
Give_counting(s) == s + 1

Give(s) == 1

\* xSemaphoreTake that succeeds: one signal is removed
Take(s) == s - 1

\* if (wait_for_response && write_semaphore_) xSemaphoreTake(write_semaphore_, 0)
ClearPending_never(wait, s) == s

ClearPending(wait, s) == IF wait /\ s > 0 THEN Take(s) ELSE s

\* NiimbotPrinter::SendPacket up to its blocking wait, with SendData called
\* through send_callback_: the frame is built into pkt[256], a pending
\* completion is cleared, SendData hands the frame to the stack when the
\* characteristic handle is set.  gif is gattc_if_ and rdy the Ready state at
\* the time of the call.  The stack completes only writes issued on an open
\* connection through a registered interface.
SendPacketStart(code, data, wait, gif, rdy) ==
  LET pkt == BuildPacket(kPktSize, code, data)
      fwd == SendDataForwards(profile)
  IN
  /\ pkt # <<>>
  /\ write_semaphore_' = ClearPending(wait, write_semaphore_)
  /\ gives' = IF wait THEN 0 ELSE gives
  /\ w_ahead' = IF ~wait THEN w_ahead
                ELSE IF fwd /\ t_conn = "up" /\ gif # ESP_GATT_IF_NONE THEN t_writes + 1
                ELSE 0
  /\ own_done' = IF wait THEN "none" ELSE own_done
  /\ t_writes' = IF fwd /\ t_conn = "up" /\ gif # ESP_GATT_IF_NONE
                 THEN t_writes + 1 ELSE t_writes
  /\ sd_last' = [called |-> TRUE, forwarded |-> fwd, link_ready |-> rdy,
                 reported |-> "none", len |-> Len(data)]

\* events are delivered one at a time by the callback task
BtIdle == bt_pc = "idle"

\* ESP_GATTC_REG_EVT (GattcCallback, then HandleGattcEvent)
RegEvt ==
  /\ BtIdle /\ boot = "reg"
  /\ \E ok \in BOOLEAN :
       /\ boot' = IF ok THEN "privacy" ELSE "dead"
       /\ profile' = IF ok THEN [profile EXCEPT !.gattc_if = AppIf] ELSE profile
       /\ last_evt' = Event("reg", FALSE)
  /\ UNCHANGED <<connected_, has_service_, gattc_if_>>
  /\ UNCHANGED <<scan, t_conn, t_req, t_nres, t_writes, t_cccd>>
  /\ UNCHANGED <<taskVars, cycle_log, cycles, link_ready, hb_seen, ready_rises, sd_last>>
  /\ UNCHANGED <<printerVars, codecVars, rxVars, printVars, cmdVars>>
  /\ UNCHANGED <<uiVars, respVars, loopVars, ownVars>>

\* ESP_GAP_BLE_SET_LOCAL_PRIVACY_COMPLETE_EVT
PrivacyCompleteEvt ==
  /\ BtIdle /\ boot = "privacy"
  /\ \E ok \in BOOLEAN : boot' = IF ok THEN "scan_params" ELSE "dead"
  /\ last_evt' = Event("privacy", FALSE)
  /\ UNCHANGED <<bleVars, scan, t_conn, t_req, t_nres, t_writes, t_cccd>>
  /\ UNCHANGED <<taskVars, cycle_log, cycles, link_ready, hb_seen, ready_rises, sd_last>>
  /\ UNCHANGED <<printerVars, codecVars, rxVars, printVars, cmdVars>>
  /\ UNCHANGED <<uiVars, respVars, loopVars, ownVars>>

\* ESP_GAP_BLE_SCAN_PARAM_SET_COMPLETE_EVT: esp_ble_gap_start_scanning(30)
ScanParamSetCompleteEvt ==
  /\ BtIdle /\ boot = "scan_params"
  /\ boot' = "run"
  /\ scan' = "timed"
  /\ last_evt' = Event("scan_params", FALSE)
  /\ UNCHANGED <<bleVars, t_conn, t_req, t_nres, t_writes, t_cccd>>
  /\ UNCHANGED <<taskVars, cycle_log, cycles, link_ready, hb_seen, ready_rises, sd_last>>
  /\ UNCHANGED <<printerVars, codecVars, rxVars, printVars, cmdVars>>
  /\ UNCHANGED <<uiVars, respVars, loopVars, ownVars>>

\* the 30 second scan started at boot ends (ESP_GAP_SEARCH_INQ_CMPL_EVT, which
\* the ESP_GAP_BLE_SCAN_RESULT_EVT case ignores)
ScanTimeout ==
  /\ BtIdle /\ scan = "timed"
  /\ scan' = "off"
  /\ last_evt' = Event("scan_cmpl", FALSE)
  /\ UNCHANGED <<bleVars, boot, t_conn, t_req, t_nres, t_writes, t_cccd>>
  /\ UNCHANGED <<taskVars, cycle_log, cycles, link_ready, hb_seen, ready_rises, sd_last>>
  /\ UNCHANGED <<printerVars, codecVars, rxVars, printVars, cmdVars>>
  /\ UNCHANGED <<uiVars, respVars, loopVars, ownVars>>

\* memcmp(result.bda, target_bda_, ESP_BD_ADDR_LEN) == 0
AddrMatches(addr) == addr = "target"

\* if (connected_) break;
AlreadyConnected_never(c) == FALSE

AlreadyConnected(c) == c

\* advertisement reports reach the handler while a scan runs, and those
\* already queued when esp_ble_gap_stop_scanning() was called still arrive
ScanResultsPending == scan # "off" \/ t_conn = "opening"

\* ESP_GAP_BLE_SCAN_RESULT_EVT with ESP_GAP_SEARCH_INQ_RES_EVT
ScanResultEvt ==
  /\ BtIdle /\ ScanResultsPending
  /\ \E addr \in {"target", "other"} :
       IF ~AlreadyConnected(connected_) /\ AddrMatches(addr)
       THEN /\ cycles < MaxCycles
            /\ connected_' = TRUE
            /\ scan' = "off"
            /\ t_conn' = "opening"
            /\ cycles' = cycles + 1
            /\ cycle_log' = IF addr = "target" THEN <<"adv">> ELSE <<>>
            /\ last_evt' = Event("scan_result", FALSE)
       ELSE /\ last_evt' = Event("scan_result", FALSE)
            /\ UNCHANGED <<connected_, scan, t_conn, cycles, cycle_log>>
  /\ UNCHANGED <<has_service_, gattc_if_, profile, boot, t_req, t_nres, t_writes, t_cccd>>
  /\ UNCHANGED <<taskVars, link_ready, hb_seen, ready_rises, sd_last>>
  /\ UNCHANGED <<printerVars, codecVars, rxVars, printVars, cmdVars>>
  /\ UNCHANGED <<uiVars, respVars, loopVars, ownVars>>

\* ESP_GATTC_OPEN_EVT
OpenEvt ==
  /\ BtIdle /\ t_conn = "opening"
  /\ \E ok \in BOOLEAN :
       IF ~ok
       THEN /\ connected_' = FALSE
            /\ scan' = "forever"
            /\ t_conn' = "none"
            /\ cycle_log' = <<>>
            /\ last_evt' = Event("open", TRUE)
            /\ UNCHANGED <<profile, t_req>>
       ELSE /\ profile' = [profile EXCEPT !.conn_id = 1]
            /\ t_conn' = "up"
            /\ t_req' = {"mtu"}
            /\ cycle_log' = Append(cycle_log, "open")
            /\ last_evt' = Event("open", FALSE)
            /\ UNCHANGED <<connected_, scan>>
  /\ UNCHANGED <<has_service_, gattc_if_, boot, t_nres, t_writes, t_cccd>>
  /\ UNCHANGED <<taskVars, cycles, link_ready, hb_seen, ready_rises, sd_last>>
  /\ UNCHANGED <<printerVars, codecVars, rxVars, printVars, cmdVars>>
  /\ UNCHANGED <<uiVars, respVars, loopVars, ownVars>>

\* ESP_GATTC_CFG_MTU_EVT: esp_ble_gattc_search_service
CfgMtuEvt ==
  /\ BtIdle /\ "mtu" \in t_req
  /\ t_req' = {"search"}
  /\ t_nres' = 0
  /\ cycle_log' = Append(cycle_log, "mtu")
  /\ last_evt' = Event("cfg_mtu", FALSE)
  /\ UNCHANGED <<bleVars, boot, scan, t_conn, t_writes, t_cccd>>
  /\ UNCHANGED <<taskVars, cycles, link_ready, hb_seen, ready_rises, sd_last>>
  /\ UNCHANGED <<printerVars, codecVars, rxVars, printVars, cmdVars>>
  /\ UNCHANGED <<uiVars, respVars, loopVars, ownVars>>

\* uuid.len == ESP_UUID_LEN_128 && memcmp(uuid128, kServiceUuid, 16) == 0
ServiceMatches_any(uuid) == TRUE

ServiceMatches(uuid) == uuid = "service"

\* ESP_GATTC_SEARCH_RES_EVT
SearchResEvt ==
  /\ BtIdle /\ "search" \in t_req /\ t_nres < MaxSearchRes
  /\ \E uuid \in {"service", "other128", "uuid16"} :
       /\ IF ServiceMatches(uuid)
          THEN /\ has_service_' = TRUE
               /\ profile' = [profile EXCEPT !.service_start_handle = 10,
                                             !.service_end_handle = 20]
          ELSE UNCHANGED <<has_service_, profile>>
       /\ cycle_log' = IF uuid = "service" THEN Append(cycle_log, "svc") ELSE cycle_log
  /\ t_nres' = t_nres + 1
  /\ last_evt' = Event("search_res", FALSE)
  /\ UNCHANGED <<connected_, gattc_if_, boot, scan, t_conn, t_req, t_writes, t_cccd>>
  /\ UNCHANGED <<taskVars, cycles, link_ready, hb_seen, ready_rises, sd_last>>
  /\ UNCHANGED <<printerVars, codecVars, rxVars, printVars, cmdVars>>
  /\ UNCHANGED <<uiVars, respVars, loopVars, ownVars>>

\* the for loop over chars[]: the index of the first characteristic whose
\* uuid is kCharacteristicUuid, 0 when there is none
FirstChar(chars) ==
  LET hits == {i \in 1..Len(chars) : chars[i].uuid = "char"}
  IN IF hits = {} THEN 0 ELSE SetMin(hits)

\* chars[i].properties & ESP_GATT_CHAR_PROP_BIT_NOTIFY
NotifyProperty(c) == c.notify

\* ESP_GATTC_SEARCH_CMPL_EVT
SearchCmplEvt ==
  /\ BtIdle /\ "search" \in t_req
  /\ \E ok \in BOOLEAN, chars \in CharTables, alloc \in BOOLEAN :
       LET i == FirstChar(chars)
           found == ok /\ has_service_ /\ Len(chars) > 0 /\ alloc /\ i > 0
       IN
       /\ profile' = IF found THEN [profile EXCEPT !.char_handle = chars[i].handle]
                      ELSE profile
       /\ t_req' = IF found /\ NotifyProperty(chars[i])
                   THEN {"reg_notify"} ELSE {}
       /\ cycle_log' = IF ~ok THEN cycle_log
                       ELSE IF i = 0 THEN Append(cycle_log, "cmpl")
                       ELSE IF chars[i].notify THEN cycle_log \o <<"cmpl", "chr">>
                       ELSE cycle_log \o <<"cmpl", "chr_nonotify">>
       /\ last_evt' = Event("search_cmpl", ~ok)
  /\ UNCHANGED <<connected_, has_service_, gattc_if_, boot, scan, t_conn, t_nres,
                 t_writes, t_cccd>>
  /\ UNCHANGED <<taskVars, cycles, link_ready, hb_seen, ready_rises, sd_last>>
  /\ UNCHANGED <<printerVars, codecVars, rxVars, printVars, cmdVars>>
  /\ UNCHANGED <<uiVars, respVars, loopVars, ownVars>>

\* the for loop over descs[]: esp_ble_gattc_write_char_descr is called for
\* the first client-configuration descriptor, then the loop breaks
CccdWrites_all(descs) == Cardinality({i \in 1..Len(descs) : descs[i] = "cccd"})

CccdWrites(descs) == IF \E i \in 1..Len(descs) : descs[i] = "cccd" THEN 1 ELSE 0

\* n descriptor writes handed to the stack and not yet answered
DescrWriteReqs(n) == IF n = 0 THEN {}
                     ELSE IF n = 1 THEN {"write_descr"}
                     ELSE {"write_descr", "write_descr2"}

\* ESP_GATTC_REG_FOR_NOTIFY_EVT
RegForNotifyEvt ==
  /\ BtIdle /\ "reg_notify" \in t_req
  /\ \E ok \in BOOLEAN, descs \in DescrTables, alloc \in BOOLEAN :
       /\ t_req' = IF ok /\ Len(descs) > 0 /\ alloc
                   THEN DescrWriteReqs(CccdWrites(descs)) ELSE {}
       /\ cycle_log' = IF ok THEN Append(cycle_log, "reg") ELSE cycle_log
       /\ last_evt' = Event("reg_for_notify", ~ok)
  /\ UNCHANGED <<bleVars, boot, scan, t_conn, t_nres, t_writes, t_cccd>>
  /\ UNCHANGED <<taskVars, cycles, link_ready, hb_seen, ready_rises, sd_last>>
  /\ UNCHANGED <<printerVars, codecVars, rxVars, printVars, cmdVars>>
  /\ UNCHANGED <<uiVars, respVars, loopVars, ownVars>>

\* param->write.status == ESP_GATT_OK in ESP_GATTC_WRITE_DESCR_EVT
DescrWriteOk_any(ok) == TRUE

DescrWriteOk(ok) == ok

\* ESP_GATTC_WRITE_DESCR_EVT.  On success connected_callback_ runs in the
\* callback task: SendHeartbeat() -> SendPacket(HEARTBEAT, {0x01}), which
\* blocks the callback task on the semaphore.
WriteDescrEvt ==
  /\ BtIdle /\ "write_descr" \in t_req
  /\ t_req' = t_req \ {IF "write_descr2" \in t_req THEN "write_descr2" ELSE "write_descr"}
  /\ \E ok \in BOOLEAN :
       IF DescrWriteOk(ok)
       THEN /\ t_writes < MaxWrites
            /\ gattc_if_' = profile.gattc_if
            /\ link_ready' = TRUE
            /\ SendPacketStart(HEARTBEAT, <<1>>, TRUE, profile.gattc_if, TRUE)
            /\ bt_pc' = "wait"
            /\ t_cccd' = ok
            /\ cycle_log' = IF ok THEN Append(cycle_log, "cccd") ELSE cycle_log
            /\ last_evt' = Event("write_descr", ~ok)
       ELSE /\ last_evt' = Event("write_descr", TRUE)
            /\ UNCHANGED <<gattc_if_, link_ready, write_semaphore_, t_writes, sd_last,
                           bt_pc, t_cccd, cycle_log, gives, ownVars>>
  /\ UNCHANGED <<connected_, has_service_, profile, boot, scan, t_conn, t_nres>>
  /\ UNCHANGED <<main_pc, main_res, bt_res, cycles, hb_seen, ready_rises>>
  /\ UNCHANGED <<cmd_wait, sig_in_wait>>
  /\ UNCHANGED <<printerVars, codecVars, rxVars, printVars>>
  /\ UNCHANGED <<uiVars, respVars, loopVars>>

\* a heartbeat response of at least 9 bytes is among the frames
HasHeartbeat(frames) ==
  \E i \in 1..Len(frames) : frames[i].type = 221 /\ Len(frames[i].data) >= 9

\* an error frame (type 0xDB) is among the frames
HasError(frames) == \E i \in 1..Len(frames) : frames[i].type = 219

\* ESP_GATTC_NOTIFY_EVT carrying one of chunks: data_received_callback_ ->
\* ProcessReceivedData
Notify(chunks) ==
  /\ BtIdle /\ t_conn = "up" /\ t_cccd
  /\ \E chunk \in chunks :
       /\ ProcessReceivedData(chunk)
       /\ hb_seen' = (hb_seen \/ HasHeartbeat(Drain(chunk).out))
       /\ err_in_job' = (err_in_job \/ (p_pc = "run" /\ HasError(Drain(chunk).out)))
  /\ ready_rises' = IF ~ready_ /\ ready_' THEN ready_rises + 1 ELSE ready_rises
  /\ last_evt' = Event("notify", FALSE)
  /\ UNCHANGED <<bleVars, envVars, taskVars>>
  /\ UNCHANGED <<cycle_log, cycles, link_ready, sd_last>>
  /\ UNCHANGED <<codecVars, rxVars, printVars, cmdVars, ui, prints, respVars, loopVars, ownVars>>

NotifyEvt == Notify(NotifyChunks)

\* the printer reports an error while a print job runs (once per job)
PrinterErrorEvt == p_pc = "run" /\ ~err_in_job /\ Notify({ErrFrame})

\* ESP_GATTC_WRITE_CHAR_EVT: write_complete_callback_ -> OnWriteComplete ->
\* xSemaphoreGive, whatever the status
WriteCharEvt ==
  /\ BtIdle /\ t_writes > 0
  /\ \E ok \in BOOLEAN :
       /\ last_evt' = Event("write_char", FALSE)
       /\ own_done' = IF w_ahead = 1 THEN (IF ok THEN "ok" ELSE "failed") ELSE own_done
  /\ w_ahead' = IF w_ahead > 0 THEN w_ahead - 1 ELSE 0
  /\ t_writes' = t_writes - 1
  /\ write_semaphore_' = Give(write_semaphore_)
  /\ gives' = gives + 1
  /\ sig_in_wait' = (sig_in_wait \/ main_pc = "wait")
  /\ UNCHANGED cmd_wait
  /\ UNCHANGED <<bleVars, boot, scan, t_conn, t_req, t_nres, t_cccd>>
  /\ UNCHANGED <<main_pc, bt_pc, main_res, bt_res>>
  /\ UNCHANGED <<cycle_log, cycles, link_ready, hb_seen, ready_rises, sd_last>>
  /\ UNCHANGED <<printerVars, codecVars, rxVars, printVars>>
  /\ UNCHANGED <<uiVars, respVars, loopVars>>

\* what ESP_GATTC_DISCONNECT_EVT leaves of the session
AfterDisconnect_keep(p) == [p EXCEPT !.service_start_handle = 0,
                                     !.service_end_handle = 0]

AfterDisconnect(p) == [p EXCEPT !.service_start_handle = 0,
                                !.service_end_handle = 0,
                                !.char_handle = 0]

\* ESP_GATTC_DISCONNECT_EVT.  Nothing calls NiimbotPrinter::Reset().
DisconnectEvt ==
  /\ BtIdle /\ t_conn = "up"
  /\ connected_' = FALSE
  /\ has_service_' = FALSE
  /\ gattc_if_' = ESP_GATT_IF_NONE
  /\ profile' = AfterDisconnect(profile)
  /\ scan' = "forever"
  /\ t_conn' = "none" /\ t_req' = {} /\ t_nres' = 0 /\ t_writes' = 0
  /\ t_cccd' = FALSE
  /\ cycle_log' = <<>> /\ link_ready' = FALSE /\ hb_seen' = FALSE
  /\ ready_rises' = 0
  /\ last_evt' = Event("disconnect", TRUE)
  /\ UNCHANGED <<boot, taskVars, cycles, sd_last>>
  /\ w_ahead' = 0
  /\ UNCHANGED <<printerVars, codecVars, rxVars, printVars, cmdVars, own_done>>
  /\ UNCHANGED <<uiVars, respVars, loopVars>>

\* app_main loop, Touch::Wait timed out: if (g_printer.IsReady())
\* GetPrintStatus() -> SendPacket(GET_PRINT_STATUS, {0x01})
MainPing ==
  /\ main_pc = "idle" /\ boot = "run"
  /\ ready_
  /\ t_writes < MaxWrites
  /\ SendPacketStart(GET_PRINT_STATUS, <<1>>, TRUE, gattc_if_, link_ready)
  /\ main_pc' = "wait"
  /\ cmd_wait' = TRUE /\ sig_in_wait' = FALSE
  /\ UNCHANGED <<bleVars, boot, scan, t_conn, t_req, t_nres, t_cccd>>
  /\ UNCHANGED <<bt_pc, main_res, bt_res>>
  /\ UNCHANGED <<cycle_log, cycles, link_ready, hb_seen, ready_rises, last_evt>>
  /\ UNCHANGED <<printerVars, codecVars, rxVars, printVars>>
  /\ UNCHANGED <<uiVars, respVars, loopVars>>

\* xSemaphoreTake(write_semaphore_, kWriteTimeout) returns pdTRUE
SemTake ==
  /\ write_semaphore_ > 0
  /\ \/ /\ main_pc = "wait"
        /\ main_pc' = "idle" /\ main_res' = "ok"
        /\ UNCHANGED <<bt_pc, bt_res>>
     \/ /\ bt_pc = "wait"
        /\ bt_pc' = "idle" /\ bt_res' = "ok"
        /\ UNCHANGED <<main_pc, main_res>>
  /\ write_semaphore_' = Take(write_semaphore_)
  /\ gives' = 0
  /\ UNCHANGED <<cmd_wait, sig_in_wait>>
  /\ UNCHANGED <<bleVars, envVars, histVars>>
  /\ UNCHANGED <<printerVars, codecVars, rxVars, printVars>>
  /\ UNCHANGED <<uiVars, respVars, loopVars, ownVars>>

\* xSemaphoreTake(write_semaphore_, kWriteTimeout) times out: ESP_ERR_TIMEOUT
WaitTimeout ==
  /\ write_semaphore_ = 0
  /\ \/ /\ main_pc = "wait"
        /\ main_pc' = "idle" /\ main_res' = "timeout"
        /\ UNCHANGED <<bt_pc, bt_res>>
     \/ /\ bt_pc = "wait"
        /\ bt_pc' = "idle" /\ bt_res' = "timeout"
        /\ UNCHANGED <<main_pc, main_res>>
  /\ UNCHANGED write_semaphore_
  /\ UNCHANGED <<bleVars, envVars, histVars>>
  /\ UNCHANGED <<printerVars, codecVars, rxVars, printVars, cmdVars>>
  /\ UNCHANGED <<uiVars, respVars, loopVars, ownVars>>

Init == PrinterInit /\ CodecIdle /\ RxIdle /\ LinkInit

Next ==
  \/ RegEvt \/ PrivacyCompleteEvt \/ ScanParamSetCompleteEvt \/ ScanTimeout
  \/ ScanResultEvt \/ OpenEvt \/ CfgMtuEvt \/ SearchResEvt \/ SearchCmplEvt
  \/ RegForNotifyEvt \/ WriteDescrEvt \/ NotifyEvt \/ WriteCharEvt
  \/ DisconnectEvt \/ MainPing \/ SemTake \/ WaitTimeout

\* ------------------------------------------------------------------------
\* CmdSpec: SendPacket and Print called from the main loop on a session
\* that is Ready or has been disconnected; the stack completes writes
\* ------------------------------------------------------------------------
\* static_cast<uint8_t>(n >> 8) and static_cast<uint8_t>(n & 0xFF)
Hi(n) == U8(n \div 256)
Lo(n) == n % 256

Command(code, data) == [code |-> code, data |-> data]

\* the row the external decoder (Signs::decode_rle_row_1bpp) writes for row y
RowData(y) == Fill(kRowBytes, y)

SetLabelDensity(density) == Command(SET_LABEL_DENSITY, <<density>>)
SetLabelType(type) == Command(SET_LABEL_TYPE, <<type>>)
StartPrint(total_pages, page_color) ==
  Command(START_PRINT, <<Hi(total_pages), Lo(total_pages), 0, 0, 0, 0, page_color>>)
StartPagePrint == Command(START_PAGE_PRINT, <<1>>)
SetPageSize(rows, cols, copies) ==
  Command(SET_DIMENSION, <<Hi(rows), Lo(rows), Hi(cols), Lo(cols), Hi(copies), Lo(copies)>>)
SendBitmapRow(row_num, row_data) ==
  Command(PRINT_BITMAP_ROW, <<Hi(row_num), Lo(row_num), 0, 0, 0, 1>> \o row_data)
EndPagePrint == Command(END_PAGE_PRINT, <<1>>)
EndPrint == Command(END_PRINT, <<1>>)

\* print_height = image.h < kPaperHeightDots ? image.h : kPaperHeightDots
PrintHeight_uncapped(h) == h

PrintHeight(h) == IF h < kPaperHeightDots THEN h ELSE kPaperHeightDots

\* the command Print sends at a step
PrintCommand(step, h, y) ==
  CASE step = "density" -> SetLabelDensity(3)
    [] step = "type" -> SetLabelType(1)
    [] step = "start" -> StartPrint(1, 0)
    [] step = "page" -> StartPagePrint
    [] step = "dim" -> SetPageSize(PrintHeight(h), kPaperWidthDots, 1)
    [] step = "row" -> SendBitmapRow(y, RowData(y))
    [] step = "endpage" -> EndPagePrint
    [] step = "endprint" -> EndPrint

\* ESP_RETURN_ON_ERROR: the step's result is not ESP_OK
StepFailed_never(res) == FALSE

StepFailed(res) == res # "ok"

\* Print calls one command: SendPacket builds and sends it and starts to wait
Issue(log, step, h, y) ==
  LET c == PrintCommand(step, h, y) IN
  /\ t_writes < MaxWrites
  /\ SendPacketStart(c.code, c.data, TRUE, gattc_if_, link_ready)
  /\ main_pc' = "wait"
  /\ cmd_wait' = TRUE /\ sig_in_wait' = FALSE
  /\ p_pc' = "run" /\ p_step' = step /\ p_y' = y
  /\ p_log' = Append(log, c)
  /\ UNCHANGED p_res

\* Print returns res
Return(log, res) ==
  /\ p_pc' = "done" /\ p_res' = res /\ p_log' = log
  /\ UNCHANGED <<p_step, p_y, main_pc, cmd_wait, sig_in_wait, gives, ownVars>>
  /\ UNCHANGED <<write_semaphore_, t_writes, sd_last>>

ImageHeights == (0..MaxImageHeight) \cup {kPaperHeightDots, kPaperHeightDots + 1}

\* app_main, touch detected: g_printer.Print(*sign), up to its first command
PrintCall ==
  /\ main_pc = "idle" /\ p_pc = "idle"
  /\ prints < MaxPrints
  /\ \E h \in ImageHeights :
       /\ p_h' = h
       /\ IF ~ready_ THEN Return(<<>>, "invalid_state")
          ELSE Issue(<<>>, "density", h, 0)
  /\ prints' = prints + 1 /\ err_in_job' = FALSE
  /\ UNCHANGED <<ui, respVars, loopVars>>
  /\ UNCHANGED <<bleVars, boot, scan, t_conn, t_req, t_nres, t_cccd>>
  /\ UNCHANGED <<bt_pc, main_res, bt_res>>
  /\ UNCHANGED <<cycle_log, cycles, link_ready, hb_seen, ready_rises, last_evt>>
  /\ UNCHANGED <<printerVars, codecVars, rxVars>>

\* Print, after the command it issued has returned: return the failure, or
\* go on to the next command, or return ESP_OK after EndPrint
PrintStep ==
  /\ main_pc = "idle" /\ p_pc = "run"
  /\ IF StepFailed(main_res) THEN Return(p_log, main_res)
     ELSE CASE p_step = "density" -> Issue(p_log, "type", p_h, 0)
            [] p_step = "type" -> Issue(p_log, "start", p_h, 0)
            [] p_step = "start" -> Issue(p_log, "page", p_h, 0)
            [] p_step = "page" -> Issue(p_log, "dim", p_h, 0)
            [] p_step = "dim" ->
                 IF 0 < PrintHeight(p_h) THEN Issue(p_log, "row", p_h, 0)
                 ELSE Issue(p_log, "endpage", p_h, 0)
            [] p_step = "row" ->
                 IF p_y + 1 < PrintHeight(p_h) THEN Issue(p_log, "row", p_h, p_y + 1)
                 ELSE Issue(p_log, "endpage", p_h, p_y + 1)
            [] p_step = "endpage" -> Issue(p_log, "endprint", p_h, p_y)
            [] p_step = "endprint" -> Return(p_log, "ok")
  /\ UNCHANGED <<bleVars, boot, scan, t_conn, t_req, t_nres, t_cccd>>
  /\ UNCHANGED <<bt_pc, main_res, bt_res, p_h>>
  /\ UNCHANGED <<cycle_log, cycles, link_ready, hb_seen, ready_rises, last_evt>>
  /\ UNCHANGED <<printerVars, codecVars, rxVars>>
  /\ UNCHANGED <<uiVars, respVars, loopVars>>

\* app_main: err != ESP_OK after Print
ShowsError_never(res) == FALSE

ShowsError(res) == res # "ok"

\* app_main after Print has returned: showError() and continue, or the
\* two-second pause and Leds::Stop(); either way the loop goes back to
\* waiting for a touch
MainPrintDone ==
  /\ main_pc = "idle" /\ p_pc = "done"
  /\ p_pc' = "idle"
  /\ ui' = IF ShowsError(p_res) THEN "error" ELSE "printed"
  /\ UNCHANGED <<p_step, p_y, p_h, p_log, p_res, cmdVars, err_in_job, prints, respVars, loopVars, ownVars>>
  /\ UNCHANGED <<bleVars, envVars, taskVars, histVars>>
  /\ UNCHANGED <<printerVars, codecVars, rxVars>>

\* SendPacket(code, data, data_len, wait_for_response) called on its own
CmdSend ==
  /\ main_pc = "idle" /\ p_pc = "idle"
  /\ t_writes < MaxWrites
  /\ \E wait \in BOOLEAN :
       /\ wait \/ gives + t_writes < MaxGives
       /\ SendPacketStart(GET_PRINT_STATUS, <<1>>, wait, gattc_if_, link_ready)
       /\ main_pc' = IF wait THEN "wait" ELSE "idle"
       /\ main_res' = IF wait THEN main_res ELSE "ok"
       /\ cmd_wait' = wait /\ sig_in_wait' = FALSE
  /\ UNCHANGED <<bleVars, boot, scan, t_conn, t_req, t_nres, t_cccd>>
  /\ UNCHANGED <<bt_pc, bt_res>>
  /\ UNCHANGED <<cycle_log, cycles, link_ready, hb_seen, ready_rises, last_evt>>
  /\ UNCHANGED <<printerVars, codecVars, rxVars, printVars>>
  /\ UNCHANGED <<uiVars, respVars, loopVars>>

\* row lengths SendBitmapRow is called with: the row of a print job, the
\* longest rows BuildPacket accepts and refuses in pkt[256], and a
\* row that does not fit pkt_data[256]
RowLens == {kRowBytes, 242, 243, 244, 251}

\* SendBitmapRow(row_num, row_data, row_len) called on its own.  A row of
\* more than 250 bytes makes memcpy write past pkt_data[256]: the behaviour
\* is undefined, and the call may go on to SendPacket, which refuses the
\* payload, or not return at all.
CmdSendRow ==
  /\ main_pc = "idle" /\ p_pc = "idle"
  /\ t_writes < MaxWrites
  /\ \E row_len \in RowLens :
       LET c == SendBitmapRow(0, Fill(row_len, 0)) IN
       IF 6 + row_len > kRowPktSize
       THEN /\ oob' = TRUE
            /\ \/ main_res' = "invalid_size" /\ main_pc' = main_pc
               \/ main_res' = main_res /\ main_pc' = "lost"
            /\ UNCHANGED <<write_semaphore_, t_writes, sd_last, cmdVars, ownVars>>
       ELSE IF BuildPacket(kPktSize, c.code, c.data) = <<>>
       THEN /\ main_res' = "invalid_size"
            /\ UNCHANGED <<oob, main_pc, write_semaphore_, t_writes, sd_last, cmdVars, ownVars>>
       ELSE /\ SendPacketStart(c.code, c.data, TRUE, gattc_if_, link_ready)
            /\ main_pc' = "wait"
            /\ cmd_wait' = TRUE /\ sig_in_wait' = FALSE
            /\ UNCHANGED <<oob, main_res>>
  /\ UNCHANGED <<bleVars, boot, scan, t_conn, t_req, t_nres, t_cccd>>
  /\ UNCHANGED <<bt_pc, bt_res>>
  /\ UNCHANGED <<cycle_log, cycles, link_ready, hb_seen, ready_rises, last_evt>>
  /\ UNCHANGED <<packet_buf_, status_, ready_, ready_fired, codecVars, rxVars, printVars>>
  /\ UNCHANGED <<uiVars, respVars, loopVars>>

\* a session that has reached Ready: the connected callback has returned
\* (its heartbeat wait timed out in the callback task) and the completion of
\* the heartbeat write has then been signalled
ReadySession ==
  /\ connected_ = TRUE /\ has_service_ = TRUE /\ gattc_if_ = AppIf
  /\ profile = [gattc_if |-> AppIf, conn_id |-> 1, service_start_handle |-> 10,
                service_end_handle |-> 20, char_handle |-> 12]
  /\ boot = "run" /\ scan = "off" /\ t_conn = "up" /\ t_req = {} /\ t_nres = 1
  /\ t_writes = 0 /\ t_cccd = TRUE
  /\ write_semaphore_ = 1 /\ gives = 1
  /\ main_pc = "idle" /\ bt_pc = "idle" /\ main_res = "none" /\ bt_res = "timeout"
  /\ cycle_log = <<"adv", "open", "mtu", "svc", "cmpl", "chr", "reg", "cccd">>
  /\ cycles = 1 /\ link_ready = TRUE
  /\ sd_last = [called |-> TRUE, forwarded |-> TRUE, link_ready |-> TRUE,
                reported |-> "none", len |-> 1]
  /\ cmd_wait = FALSE /\ sig_in_wait = FALSE

\* the same session after ESP_GATTC_DISCONNECT_EVT
DownSession ==
  /\ connected_ = FALSE /\ has_service_ = FALSE /\ gattc_if_ = ESP_GATT_IF_NONE
  /\ profile = [gattc_if |-> AppIf, conn_id |-> 1, service_start_handle |-> 0,
                service_end_handle |-> 0, char_handle |-> kInvalidHandle]
  /\ boot = "run" /\ scan = "forever" /\ t_conn = "none" /\ t_req = {} /\ t_nres = 0
  /\ t_writes = 0 /\ t_cccd = FALSE
  /\ write_semaphore_ = 1 /\ gives = 1
  /\ main_pc = "idle" /\ bt_pc = "idle" /\ main_res = "none" /\ bt_res = "timeout"
  /\ cycle_log = <<>> /\ cycles = 1 /\ link_ready = FALSE /\ hb_seen = FALSE
  /\ ready_rises = 0
  /\ last_evt = Event("disconnect", TRUE)
  /\ sd_last = [called |-> TRUE, forwarded |-> TRUE, link_ready |-> TRUE,
                reported |-> "none", len |-> 1]
  /\ cmd_wait = FALSE /\ sig_in_wait = FALSE

CmdInit ==
  /\ packet_buf_ = <<>> /\ status_ \in {StatusInit, HeartbeatStatus(StatusInit, Fill(9, 0))}
  /\ ready_ = (status_ # StatusInit) /\ ready_fired = (IF ready_ THEN 1 ELSE 0)
  /\ oob = FALSE
  /\ CodecIdle /\ RxIdle
  /\ \/ /\ ReadySession
        /\ hb_seen = ready_ /\ ready_rises = (IF ready_ THEN 1 ELSE 0)
        /\ last_evt = IF ready_ THEN Event("notify", FALSE) ELSE Event("write_char", FALSE)
     \/ DownSession
  /\ p_pc = "idle" /\ p_step = "none" /\ p_y = 0 /\ p_h = 0 /\ p_log = <<>>
  /\ p_res = "none"
  /\ err_in_job = FALSE /\ ui = "none" /\ prints = 0
  /\ RespIdle /\ LoopIdle
  /\ w_ahead = 0 /\ own_done \in {"ok", "failed"}

CmdNext ==
  \/ CmdSend \/ PrintCall \/ PrintStep \/ MainPrintDone \/ PrinterErrorEvt
  \/ WriteCharEvt \/ SemTake \/ WaitTimeout

\* single commands, SendBitmapRow among them, on the same sessions
RowNext == CmdSend \/ CmdSendRow \/ WriteCharEvt \/ SemTake \/ WaitTimeout

\* ------------------------------------------------------------------------
\* RespSpec: HandleResponse on parsed frames, and Reset
\* ------------------------------------------------------------------------
\* response types: error, heartbeat, print status, StartPrint
\* acknowledgment, unknown
RespTypes == {219, 221, 179, 2, 0}

\* a payload of n bytes, byte i (0-based) being (v + i + 1) mod 256
RespData(n, v) == [i \in 1..n |-> (v + i) % 256]

RespLens == {0, 8, 9, 10, 13, 19, 20, 21}

RespPayloads == {RespData(n, v) : n \in RespLens, v \in {0, 240}}

PrinterState == [status |-> status_, ready |-> ready_, fired |-> ready_fired]

RespInit == PrinterInit /\ CodecIdle /\ RxIdle /\ LinkInit

\* HandleResponse(type, data, data_len)
Respond ==
  /\ h_n < MaxResponses
  /\ \E type \in RespTypes, data \in RespPayloads :
       LET p == HandleResponse(PrinterState, type, data) IN
       /\ status_' = p.status /\ ready_' = p.ready /\ ready_fired' = p.fired
       /\ h_last' = [op |-> "resp", type |-> type, data |-> data,
                     before |-> PrinterState]
  /\ h_n' = h_n + 1
  /\ UNCHANGED <<packet_buf_, oob, codecVars, rxVars, sessionVars, loopVars>>

\* Reset()
ResetCall ==
  /\ h_n < MaxResponses
  /\ ready_' = FALSE /\ packet_buf_' = <<>> /\ status_' = StatusInit
  /\ h_last' = [op |-> "reset", type |-> 0, data |-> <<>>, before |-> PrinterState]
  /\ h_n' = h_n + 1
  /\ UNCHANGED <<ready_fired, oob, codecVars, rxVars, sessionVars, loopVars>>

RespNext == Respond \/ ResetCall

\* ------------------------------------------------------------------------
\* LoopSpec: the parse loop of ProcessReceivedData, one iteration per step
\* ------------------------------------------------------------------------
\* one pass through the body of while (packet_buf_len_ >= 7) on buffer buf:
\* the buffer it leaves, the frame it hands to HandleResponse, whether it
\* ends in a break, and what it did
LoopBody(buf) ==
  LET start_idx == FindStart(buf)
      b == SubSeq(buf, start_idx + 1, Len(buf))
      it(kind, left, frames, stop) ==
        [buf |-> left, frames |-> frames, stop |-> stop,
         last |-> [kind |-> kind, before |-> buf, start_idx |-> start_idx,
                   declared |-> IF Len(b) >= 4 THEN b[4] ELSE 0]]
  IN
  IF Len(b) < 7 THEN it("short", b, <<>>, TRUE)
  ELSE
    LET pr == ParsePacket(b) IN
    IF pr.ok
    THEN it("frame", SubSeq(b, pr.data_len + 8, Len(b)),
            <<[type |-> pr.type, data |-> pr.data]>>, FALSE)
    ELSE IF Len(b) < ExpectedLen(b) THEN it("incomplete", b, <<>>, TRUE)
    ELSE it("skip", ResyncDrop(b), <<>>, FALSE)

\* buffer contents the loop is entered with: every byte string of up to
\* MaxBufLen bytes over 0x00, 0x55, 0xAA, and longer ones made of frames
LoopBufs ==
  SeqsUpTo({0, kPacketStart1, kPacketEnd1}, MaxBufLen)
    \cup {HbFrame \o ErrFrame, <<0, 85>> \o HbFrame \o <<85>>,
          Corrupt(HbFrame, 1) \o ErrFrame, Corrupt(ErrFrame, 255) \o HbFrame,
          FrameHead(3), ErrFrame \o FrameHead(10), HbFrame \o <<85, 85, 0>>}

\* ProcessReceivedData has appended the chunk: the loop is reached with the
\* buffer holding buf
LoopEnter ==
  /\ l_pc = "idle"
  /\ \E buf \in LoopBufs :
       /\ packet_buf_' = buf
       /\ l_start' = buf
  /\ l_pc' = "loop"
  /\ UNCHANGED <<l_out, l_n, l_last>>
  /\ UNCHANGED <<status_, ready_, ready_fired, oob, codecVars, rxVars, sessionVars, respVars>>

\* the loop condition, and one iteration when it holds
LoopStep ==
  /\ l_pc = "loop"
  /\ IF Len(packet_buf_) < 7
     THEN /\ l_pc' = "exit"
          /\ UNCHANGED <<packet_buf_, status_, ready_, ready_fired, l_out, l_n, l_last>>
     ELSE LET r == LoopBody(packet_buf_)
              p == HandleAll(PrinterState, r.frames, 1)
          IN
          /\ packet_buf_' = r.buf
          /\ status_' = p.status /\ ready_' = p.ready /\ ready_fired' = p.fired
          /\ l_out' = l_out \o r.frames
          /\ l_n' = l_n + 1
          /\ l_last' = r.last
          /\ l_pc' = IF r.stop THEN "exit" ELSE "loop"
  /\ UNCHANGED <<l_start, oob, codecVars, rxVars, sessionVars, respVars>>

LoopNext == LoopEnter \/ LoopStep

vars == <<printerVars, codecVars, rxVars, linkVars>>

CodecSpec == CodecInit /\ [][CodecNext]_vars
RxSpec == RxInit /\ [][RxNext]_vars
Spec == Init /\ [][Next]_vars
CmdSpec == CmdInit /\ [][CmdNext]_vars

RowSpec == CmdInit /\ [][RowNext]_vars

RespSpec == RespInit /\ [][RespNext]_vars

LoopSpec == Init /\ [][LoopNext]_vars


\* ------------------------------------------------------------------------
\* Properties of the frame codec (CodecSpec)
\* ------------------------------------------------------------------------
\* C1: for every type byte and every payload of 0..248 bytes, ParsePacket
\* applied to what BuildPacket wrote (into a buffer of at least length + 7
\* bytes) succeeds and returns the same type and the same payload.
C1_RoundTrip ==
  (Len(c_data) <= 248 /\ c_buf_size >= Len(c_data) + 7) =>
     /\ c_pc = "built" => Len(c_pkt) = Len(c_data) + 7
     /\ c_pc = "parsed" =>
          /\ c_parsed.ok
          /\ c_parsed.type = c_type
          /\ c_parsed.data_len = Len(c_data)
          /\ c_parsed.data = c_data

C1_Witness ==
  /\ c_pc = "parsed" /\ Len(c_data) = 248 /\ c_type = 221
  /\ c_parsed.ok /\ c_parsed.data = c_data

\* ------------------------------------------------------------------------
\* Properties of the reassembly buffer (RxSpec)
\* ------------------------------------------------------------------------
AllFed == rx_pos = Len(rx_stream.bytes)

\* no start marker begins inside the first k bytes of the stream
NoMarkerBefore(bytes, k) ==
  \A i \in 1..k : ~(bytes[i] = kPacketStart1 /\ bytes[i + 1] = kPacketStart2)

\* C2 as stated: any garbage followed by one valid frame delivers exactly that
\* frame and leaves nothing buffered.
C2_AnyGarbage ==
  (rx_stream.kind = "garbage_frame" /\ AllFed) =>
     (rx_out = <<rx_stream.frame>> /\ packet_buf_ = <<>>)

\* C2 amended: garbage in which no start marker begins (no 0x55 0x55 pair and
\* no final 0x55 that pairs with the first byte of the frame), followed by one
\* valid frame, delivers exactly that frame and leaves nothing buffered.
C2_MarkerFreeGarbage ==
  (/\ rx_stream.kind = "garbage_frame" /\ AllFed
   /\ NoMarkerBefore(rx_stream.bytes, Len(rx_stream.garbage))) =>
     (rx_out = <<rx_stream.frame>> /\ packet_buf_ = <<>>)

C2_Witness ==
  /\ rx_stream.kind = "garbage_frame" /\ AllFed
  /\ Len(rx_stream.garbage) >= 2
  /\ NoMarkerBefore(rx_stream.bytes, Len(rx_stream.garbage))
  /\ rx_out = <<rx_stream.frame>>

\* the frame was handed to HandleResponse
Delivered(f) == \E i \in 1..Len(rx_out) : rx_out[i] = f

\* C3 as stated: a fully present frame with a wrong checksum followed by a
\* valid frame ends with the valid frame delivered.
C3_AnyCorruptFrame ==
  (rx_stream.kind = "corrupt_frame" /\ AllFed) => Delivered(rx_stream.frame)

\* no 0x55 after the two start-marker bytes
NoStartByteInside(pkt) == \A i \in 3..Len(pkt) : pkt[i] # kPacketStart1

\* C3 amended: when the corrupt frame holds no 0x55 byte after its start
\* marker, the valid frame that follows it is delivered, alone, after at
\* least one and at most Len(corrupt frame) one-byte discards.
C3_Resync ==
  (/\ rx_stream.kind = "corrupt_frame" /\ AllFed
   /\ NoStartByteInside(rx_stream.bad)) =>
     /\ rx_out = <<rx_stream.frame>>
     /\ packet_buf_ = <<>>
     /\ rx_skips >= 1 /\ rx_skips <= Len(rx_stream.bad)

C3_Witness ==
  /\ rx_stream.kind = "corrupt_frame" /\ AllFed
  /\ NoStartByteInside(rx_stream.bad)
  /\ Len(rx_stream.bad) > 7
  /\ rx_skips >= 1
  /\ rx_out = <<rx_stream.frame>>

\* C4: a valid frame delivered in two calls, a proper prefix and then the
\* rest, yields no frame in the first call and exactly the frame in the second.
C4_Split ==
  (rx_stream.kind = "garbage_frame" /\ rx_stream.garbage = <<>>) =>
     /\ (rx_ncalls = 1 /\ ~AllFed) => (rx_out = <<>> /\ rx_last.out = <<>>)
     /\ (rx_ncalls = 2 /\ AllFed) =>
          (rx_out = <<rx_stream.frame>> /\ rx_last.out = <<rx_stream.frame>>)

C4_Witness ==
  /\ rx_stream.kind = "garbage_frame" /\ rx_stream.garbage = <<>>
  /\ rx_ncalls = 2 /\ AllFed
  /\ Len(rx_last.chunk) = 1
  /\ rx_last.out = <<rx_stream.frame>>

\* C5: the buffered length never exceeds the capacity and no byte is written
\* past packet_buf_, whatever the chunk lengths.
C5_WithinCapacity == Len(packet_buf_) <= kPacketBufSize /\ ~oob

\* the last call appended a chunk that fits the buffer by itself but not
\* behind what was buffered, in a stream without any resolvable frame
OverflowCase ==
  /\ rx_stream.kind = "overflow"
  /\ rx_last.overflow
  /\ Len(rx_last.chunk) <= kPacketBufSize

\* C6 as stated: an append that would exceed the capacity, with no
\* resolvable frame involved, leaves the buffer empty (shown here already for
\* chunks that fit the buffer by themselves).
C6_EmptyAfterOverflow == OverflowCase => packet_buf_ = <<>>

IsSuffix(s, t) == Len(s) <= Len(t) /\ s = SubSeq(t, Len(t) - Len(s) + 1, Len(t))

\* C6 amended: when appending a chunk of at most 512 bytes would exceed the
\* capacity, every byte buffered before is discarded and the chunk is stored
\* in the emptied buffer: afterwards the buffer holds only what the parse loop
\* leaves of the chunk (not necessarily nothing), nothing is written past the
\* buffer, and with no resolvable frame in the chunk that call delivers none.
C6_OverflowKeepsChunk ==
  OverflowCase =>
     /\ ~oob
     /\ IsSuffix(packet_buf_, rx_last.chunk)
     /\ rx_last.out = <<>>
     /\ rx_out = <<>>

C6_Witness ==
  /\ OverflowCase
  /\ Len(rx_last.before) > 200
  /\ Len(packet_buf_) >= 7
  /\ IsSuffix(packet_buf_, rx_last.chunk)


\* ------------------------------------------------------------------------
\* Properties of the link session (Spec)
\* ------------------------------------------------------------------------
\* C7: the device-ready flag rises exactly once per connection cycle, on the
\* first heartbeat response of at least 9 bytes, and is false from a
\* disconnect until the first heartbeat response of the next connection.
C7_ReadyPerCycle ==
  /\ ready_ = hb_seen
  /\ ready_rises = IF hb_seen THEN 1 ELSE 0

RECURSIVE IsSubseq(_, _)
IsSubseq(s, t) ==
  IF s = <<>> THEN TRUE
  ELSE IF t = <<>> THEN FALSE
  ELSE IF s[1] = t[1] THEN IsSubseq(Tail(s), Tail(t))
  ELSE IsSubseq(s, Tail(t))

\* C8: the connected notification fires only after, within the same
\* connection cycle and in this order, an advertisement of the target, a
\* successful open, the MTU negotiation, a service result with the fixed
\* service identifier, a characteristic with the fixed identifier and the
\* notify property, and a successful notification-enable acknowledgment.
C8_ReadyOrder ==
  link_ready => IsSubseq(<<"adv", "open", "mtu", "svc", "chr", "cccd">>, cycle_log)

C8_Witness ==
  /\ link_ready /\ cycles = 2
  /\ IsSubseq(<<"adv", "open", "mtu", "svc", "chr", "cccd">>, cycle_log)

\* C9: a SendData call made while the session has not reached Ready forwards
\* nothing to the transport and reports NotReady to its caller.
C9_NotReadyRefused ==
  (sd_last.called /\ ~sd_last.link_ready) =>
     (~sd_last.forwarded /\ sd_last.reported = "NotReady")

\* handles and readiness cleared
SessionReset ==
  /\ ~connected_ /\ ~has_service_
  /\ gattc_if_ = ESP_GATT_IF_NONE
  /\ profile.service_start_handle = 0 /\ profile.service_end_handle = 0
  /\ profile.char_handle = kInvalidHandle

\* C10: after an open failure, a service search failure, a notify
\* registration failure, a notification-enable write failure or a disconnect
\* event, the session is reset and the link is scanning again.
C10_FailureResets == last_evt.failed => (SessionReset /\ scan # "off")

\* C11: after a successful Initialize, as long as no connection is
\* established scanning is never permanently stopped: whenever the start-up
\* chain has run and the session is not connected, a scan is in progress.
C11_ScanNeverStops == (boot = "run" /\ ~connected_) => scan # "off"

\* C12: a connection attempt starts only on an advertisement whose address
\* equals the target, received while no attempt or connection exists; that
\* step stops scanning, and the session stays marked connected (so no second
\* attempt can start) until the open fails or a disconnect event arrives.
C12_SingleAttempt ==
  [][ /\ (cycles' # cycles) =>
           /\ ~connected_ /\ t_conn = "none"
           /\ last_evt'.name = "scan_result" /\ cycle_log' = <<"adv">>
           /\ connected_' /\ scan' = "off" /\ t_conn' = "opening"
      /\ (connected_ /\ ~connected_') =>
           last_evt' \in {Event("open", TRUE), Event("disconnect", TRUE)} ]_vars

\* a second attempt, started after the first one ended, with scanning stopped
C12_Witness ==
  /\ cycles = 2 /\ t_conn = "opening" /\ connected_ /\ scan = "off"
  /\ cycle_log = <<"adv">> /\ last_evt.name = "scan_result"

\* C13: within one connection cycle the connected notification fires when
\* the notification-enable write is acknowledged as successful, and only
\* then; it never fires in a cycle in which it has already fired.
C13_ConnectedOnce ==
  [][ /\ (bt_pc = "idle" /\ bt_pc' = "wait") =>
           (~link_ready /\ link_ready' /\ ~t_cccd /\ t_cccd')
      /\ (~t_cccd /\ t_cccd') =>
           (bt_pc = "idle" /\ bt_pc' = "wait" /\ ~link_ready /\ link_ready') ]_vars

\* the notification has fired in a second cycle and its heartbeat has returned
C13_Witness ==
  /\ cycles = 2 /\ link_ready /\ t_cccd /\ bt_pc = "idle" /\ bt_res # "none"
  /\ t_req = {}

InLog(e) == \E i \in 1..Len(cycle_log) : cycle_log[i] = e

\* the service search of this cycle completed successfully, and no service
\* result carried the fixed service identifier or no characteristic carried
\* the fixed characteristic identifier
DiscoveryMismatch ==
  /\ InLog("cmpl")
  /\ ~InLog("svc") \/ (~InLog("chr") /\ ~InLog("chr_nonotify"))

\* C14: after a service search that completes with no matching service or
\* no matching characteristic, the session issues no further request, never
\* reaches Ready and keeps the connection with scanning stopped; it leaves
\* that state only by a disconnect event, which restarts scanning.
C14_MismatchStalls ==
  /\ [](DiscoveryMismatch =>
          /\ ~link_ready /\ ~t_cccd /\ t_req = {}
          /\ connected_ /\ t_conn = "up" /\ scan = "off")
  /\ [][ (DiscoveryMismatch /\ ~DiscoveryMismatch') =>
           (last_evt' = Event("disconnect", TRUE) /\ scan' = "forever") ]_vars

\* the matching service was found and none of its characteristics matched
C14_Witness ==
  /\ DiscoveryMismatch /\ InLog("svc") /\ has_service_
  /\ profile.char_handle = kInvalidHandle /\ last_evt = Event("search_cmpl", FALSE)

\* C15: every blocking SendPacket (wait_for_response = true) runs in the
\* main-loop context: the transport callback task is never inside
\* SendPacket's wait.
C15_NoBlockingInCallback == bt_pc # "wait"

\* C16: at most one SendPacket wait on the completion signal is outstanding
\* at any time, whatever the interleaving of the main loop and the
\* transport callbacks.
C16_OneWait == ~(main_pc = "wait" /\ bt_pc = "wait")

\* ------------------------------------------------------------------------
\* Properties of the command engine (CmdSpec)
\* ------------------------------------------------------------------------
\* C17: a SendPacket call with wait_for_response = true returns Ok when a
\* write completion is signalled during its wait and Timeout when none is;
\* a call with wait_for_response = false returns Ok and never waits.
C17_SendPacketResult ==
  /\ main_pc = "wait" => cmd_wait
  /\ (main_pc = "idle" /\ main_res # "none") =>
       main_res = IF cmd_wait /\ ~sig_in_wait THEN "timeout" ELSE "ok"

\* a waiting call, made on its own, that a completion satisfied
C17_Witness ==
  /\ p_pc = "idle" /\ main_pc = "idle" /\ cmd_wait /\ sig_in_wait
  /\ main_res = "ok" /\ write_semaphore_ = 0

\* C18: the completion signal is a single slot: one or more completions
\* signalled since the slot was last taken leave exactly one pending signal,
\* and a wait that takes it leaves the slot empty, so the excess completions
\* satisfy no further wait.
C18_SingleSlot ==
  /\ [](/\ write_semaphore_ \in {0, 1}
        /\ write_semaphore_ = 1 <=> gives >= 1)
  /\ [][ (main_pc = "wait" /\ main_pc' = "idle" /\ main_res' = "ok") =>
           (write_semaphore_ = 1 /\ write_semaphore_' = 0 /\ gives' = 0) ]_vars

\* two completions were signalled with no wait in between: one is pending
C18_Witness == gives >= 2 /\ write_semaphore_ = 1 /\ main_pc = "idle"

Min(a, b) == IF a < b THEN a ELSE b

\* the 16-bit big-endian number in bytes i and i + 1 of a payload
Be16(data, i) == data[i] * 256 + data[i + 1]

\* C19: a Print that returns Ok has issued exactly: set density, set label
\* type, start print, start page, set dimensions with rows = min(image
\* height, 240) and columns = 384, one bitmap row per row index 0 ..
\* min(image height, 240) - 1 in ascending order, end page, end print.
C19_PrintSequence ==
  (p_pc = "done" /\ p_res = "ok") =>
    LET n == Min(p_h, 240) IN
    /\ Len(p_log) = n + 7
    /\ [i \in 1..5 |-> p_log[i].code] = <<33, 35, 1, 3, 19>>
    /\ Be16(p_log[5].data, 1) = n /\ Be16(p_log[5].data, 3) = 384
    /\ \A i \in 1..n : p_log[5 + i].code = 133 /\ Be16(p_log[5 + i].data, 1) = i - 1
    /\ p_log[n + 6].code = 227 /\ p_log[n + 7].code = 243

\* an image higher than the paper was printed to the end
C19_Witness ==
  /\ p_pc = "done" /\ p_res = "ok" /\ p_h = 241 /\ Len(p_log) = 247
  /\ p_log[245].code = 133

\* C20: when a command of a print job has returned a failure, the next thing
\* Print does is return that failure, sending nothing; once Print has
\* returned, no further command of the job is issued.
C20_AbortOnFailure ==
  [][ /\ (p_pc = "run" /\ main_pc = "idle" /\ main_res # "ok" /\ printVars' # printVars) =>
           /\ p_pc' = "done" /\ p_res' = main_res
           /\ p_log' = p_log /\ sd_last' = sd_last /\ t_writes' = t_writes
      /\ (p_pc = "done") =>
           (p_log' = p_log /\ p_res' = p_res /\ sd_last' = sd_last) ]_vars

\* the job was aborted by a write timeout on its second bitmap row
C20_Witness ==
  /\ p_pc = "done" /\ p_res = "timeout" /\ p_h = 240
  /\ Len(p_log) = 7 /\ p_log[7].code = 133 /\ Be16(p_log[7].data, 1) = 1

\* C21: a print job during which the printer reported an error frame (type
\* 0xDB) does not end with Print returning ESP_OK: the error surfaces as a
\* failure of the job.
C21_ErrorFailsJob == (p_pc = "done" /\ err_in_job) => p_res # "ok"

\* C22: no frame handed to the transport carries a payload longer than 248
\* bytes: whatever command was called last, the frame SendData received has
\* a payload of at most 248 bytes.
C22_PayloadBound == sd_last.called => sd_last.len <= 248

\* C23 (as stated): after one bit of the length byte or of a payload byte of
\* a built frame has been flipped, ParsePacket fails and the failure is the
\* checksum mismatch.
C23_FlipChecksumMismatch ==
  (c_pc = "parsed_flipped") => (~c_parsed.ok /\ c_parsed.why = "checksum")

\* no payload byte from the new end of the payload to the old one is 0xAA
NoEndMarkerByte(data, lo) == \A i \in lo..Len(data) : data[i] # kPacketEnd1

\* C23 (amended): for a frame built from a payload of at most 255 bytes, a
\* flipped payload bit makes ParsePacket fail with the checksum mismatch; a
\* flipped length bit that raises the length makes it fail as incomplete,
\* and one that lowers the length makes it fail on the end marker when
\* neither the cut-off part of the payload nor the checksum byte holds 0xAA.
C23_FlipDetected ==
  (c_pc = "parsed_flipped" /\ Len(c_data) <= 255) =>
     /\ (c_flip.pos > 4) => (~c_parsed.ok /\ c_parsed.why = "checksum")
     /\ (c_flip.pos = 4 /\ c_pkt[4] > Len(c_data)) =>
          (~c_parsed.ok /\ c_parsed.why = "incomplete")
     /\ (c_flip.pos = 4 /\ c_pkt[4] < Len(c_data)
           /\ NoEndMarkerByte(c_data, c_pkt[4] + 1)
           /\ BuildChecksum(c_type, c_data) # kPacketEnd1) =>
          (~c_parsed.ok /\ c_parsed.why = "bad_end")

\* the last byte of a 248-byte payload was flipped and the checksum caught it
C23_Witness ==
  /\ c_pc = "parsed_flipped" /\ Len(c_data) = 248 /\ c_flip.pos = 252
  /\ ~c_parsed.ok /\ c_parsed.why = "checksum"

\* the last call was HandleResponse with a heartbeat response of at least
\* 9 bytes
HeartbeatHandled ==
  h_last.op = "resp" /\ h_last.type = 221 /\ Len(h_last.data) >= 9

\* C24: after HandleResponse has handled a heartbeat response with a 13-byte
\* payload, closing_state, power_level, paper_state and rfid_read_state are
\* the payload bytes at offsets 9, 10, 11 and 12.
C24_Heartbeat13 ==
  (HeartbeatHandled /\ Len(h_last.data) = 13) =>
     status_ = [closing_state |-> h_last.data[10], power_level |-> h_last.data[11],
                paper_state |-> h_last.data[12], rfid_read_state |-> h_last.data[13]]

\* a 13-byte heartbeat replaced a status whose four fields all differed
C24_Witness ==
  /\ HeartbeatHandled /\ Len(h_last.data) = 13
  /\ status_ = [closing_state |-> 250, power_level |-> 251, paper_state |-> 252,
                rfid_read_state |-> 253]
  /\ h_last.before.status = [closing_state |-> 10, power_level |-> 11,
                             paper_state |-> 12, rfid_read_state |-> 13]

\* C28: a heartbeat response of at least 9 bytes handled while the ready flag
\* is false sets the flag and takes the ready-callback branch once; handled
\* while the flag is true it leaves the flag true and does not take the
\* branch; and the flag goes from true to false only in Reset.
C28_ReadyOnce ==
  /\ HeartbeatHandled =>
       /\ ready_
       /\ ready_fired = h_last.before.fired + (IF h_last.before.ready THEN 0 ELSE 1)
  /\ (h_last.before.ready /\ ~ready_) => h_last.op = "reset"

\* a second heartbeat response arrived with the flag already set
C28_Witness ==
  /\ HeartbeatHandled /\ h_last.before.ready /\ ready_ /\ ready_fired = 1 /\ h_n = 2

\* the status after the last heartbeat response, as the claim lists it by
\* payload length; lengths in asis are those said to change nothing
ListedStatus(asis) ==
  LET n == Len(h_last.data)
      d == h_last.data
      b == h_last.before.status
  IN
  CASE n = 9 -> [b EXCEPT !.closing_state = d[9]]
    [] n = 10 -> [b EXCEPT !.closing_state = d[9], !.power_level = d[10]]
    [] n = 19 -> [closing_state |-> d[16], power_level |-> d[17],
                  paper_state |-> d[18], rfid_read_state |-> d[19]]
    [] n = 20 -> [b EXCEPT !.paper_state = d[19], !.rfid_read_state = d[20]]
    [] n \in asis -> b
    [] OTHER -> status_

C30_OthersNoEffect ==
  (h_last.op = "resp" /\ ~(h_last.type = 221 /\ Len(h_last.data) >= 9)) =>
     /\ status_ = h_last.before.status
     /\ ready_ = h_last.before.ready
     /\ ready_fired = h_last.before.fired

\* an 8-byte heartbeat frame arrived on a ready printer whose status was
\* set by an earlier heartbeat, and changed nothing
C30_Witness ==
  /\ h_last.op = "resp" /\ h_last.type = 221 /\ Len(h_last.data) = 8
  /\ h_last.before.ready /\ ready_ /\ ready_fired = 1
  /\ h_last.before.status # StatusInit /\ status_ = h_last.before.status

\* the matching characteristic was found in the current connection
CharDiscovered == InLog("chr") \/ InLog("chr_nonotify")

\* a step in which SendPacket is called (and with it SendData)
SendDataCalled ==
  \/ main_pc = "idle" /\ main_pc' = "wait"
  \/ bt_pc = "idle" /\ bt_pc' = "wait"

\* C25: right after a disconnect event the service handles, the
\* characteristic handle, the service-found flag, the connected flag and the
\* interface are cleared; the characteristic handle is set only while a
\* characteristic discovered in the current connection is known, and a
\* SendData call forwards to the transport only then.
C25_ClearedOnDisconnect ==
  /\ [](/\ (last_evt = Event("disconnect", TRUE)) =>
            /\ ~connected_ /\ ~has_service_ /\ gattc_if_ = ESP_GATT_IF_NONE
            /\ profile.service_start_handle = 0 /\ profile.service_end_handle = 0
            /\ profile.char_handle = kInvalidHandle
        /\ (profile.char_handle # kInvalidHandle) => CharDiscovered)
  /\ [][(SendDataCalled /\ sd_last'.forwarded) => CharDiscovered]_vars

\* after a disconnect that followed a full session, the main loop's ping
\* called SendData and nothing was forwarded
C25_Witness ==
  /\ last_evt = Event("disconnect", TRUE) /\ cycles >= 1
  /\ main_pc = "wait" /\ sd_last.called /\ ~sd_last.forwarded
  /\ t_writes = 0

\* C26: when Print has returned a failure, the next step of the main loop
\* shows the error and goes back to waiting for a touch, sending nothing;
\* a Print starts only with a new touch, never as a retry of the failed one.
C26_ErrorThenWait ==
  [][ /\ (p_pc = "done" /\ p_res # "ok" /\ p_pc' # "done") =>
           /\ ui' = "error" /\ p_pc' = "idle" /\ main_pc' = "idle"
           /\ sd_last' = sd_last /\ t_writes' = t_writes /\ p_log' = p_log
           /\ prints' = prints
      /\ (p_pc # "run" /\ p_pc' = "run") => (p_pc = "idle" /\ prints' = prints + 1) ]_vars

\* a print job that timed out on a command was reported and the loop waits
C26_Witness ==
  /\ p_pc = "idle" /\ main_pc = "idle" /\ ui = "error"
  /\ p_res = "timeout" /\ Len(p_log) > 0 /\ prints = 1

\* C27: while a print job runs, the link of the current connection cycle has
\* reached Ready and a heartbeat response has been received in this cycle.
C27_PrintAfterHeartbeat == (p_pc = "run") => (link_ready /\ hb_seen)

\* C32: for a payload of n bytes and an output buffer of at least n + 7
\* bytes BuildPacket returns n + 7 and writes 0x55, 0x55, the type, the
\* length byte n, the payload, the XOR of the type byte, the length byte and
\* the payload bytes, 0xAA, 0xAA.
C32_FrameLayout ==
  (c_pc = "built" /\ c_buf_size >= Len(c_data) + 7) =>
     LET n == Len(c_data) IN
     /\ Len(c_pkt) = n + 7
     /\ SubSeq(c_pkt, 1, 4) = <<85, 85, c_type, n>>
     /\ SubSeq(c_pkt, 5, 4 + n) = c_data
     /\ c_pkt[5 + n] = XorRange(c_pkt, 3, 4 + n)
     /\ SubSeq(c_pkt, 6 + n, 7 + n) = <<170, 170>>

\* C33: whenever BuildPacket emits a frame, the payload length fits in one
\* byte and the length byte of the frame equals the payload length.
C33_LengthFits ==
  (c_pc = "built" /\ c_pkt # <<>>) =>
     (Len(c_data) <= 255 /\ c_pkt[4] = Len(c_data))

\* the waiting SendPacket of the main loop returns ESP_OK in this step
ReturnsOk == main_pc = "wait" /\ main_pc' = "idle" /\ main_res' = "ok"

\* C34: a waiting SendPacket returns Ok only when the completion of the
\* write it issued itself has been delivered; the completion of an earlier
\* command's write does not satisfy its wait.
C34_OwnCompletion == [][ReturnsOk => own_done # "none"]_vars

\* C35: a waiting SendPacket does not return Ok when the completion event of
\* its write carried a failure status.
C35_FailureFails == [][ReturnsOk => own_done # "failed"]_vars

\* C36: the heartbeat query issued from the connected callback returns Ok
\* when its write is with the transport on an open connection: its wait does
\* not end in a timeout while the completion of its write is still to be
\* delivered.
C36_HeartbeatAcked ==
  [][(bt_pc = "wait" /\ bt_pc' = "idle" /\ t_conn = "up" /\ t_writes > 0) =>
       bt_res' = "ok"]_vars

\* C31: the parse loop terminates.  An iteration that does not stop removes
\* at least one byte: the garbage before the start marker and then exactly
\* declared length + 7 bytes after a successful parse, exactly one byte
\* after a fully present invalid frame; so the loop makes at most as many
\* iterations as the buffer had bytes.  On exit the buffer holds fewer than
\* 7 bytes or starts with the start marker of a frame whose declared length
\* is not fully present.  The iterations give the result of ParseLoop.
C31_LoopTerminates ==
  LET removed == Len(l_last.before) - Len(packet_buf_) IN
  /\ l_n <= Len(l_start)
  /\ (l_last.kind = "frame") => removed = l_last.start_idx + l_last.declared + 7
  /\ (l_last.kind = "skip") => removed = l_last.start_idx + 1
  /\ (l_pc = "loop" /\ l_n > 0) => removed >= 1
  /\ (l_pc = "exit") =>
       /\ \/ Len(packet_buf_) < 7
          \/ /\ packet_buf_[1] = kPacketStart1 /\ packet_buf_[2] = kPacketStart2
             /\ Len(packet_buf_) < packet_buf_[4] + 7
       /\ LET r == ParseLoop([buf |-> l_start, out |-> <<>>, skips |-> 0])
          IN packet_buf_ = r.buf /\ l_out = r.out

\* the first byte of a corrupt frame was dropped, the next iteration removed
\* the rest of it as garbage and delivered the frame behind it, and the
\* loop ended on an empty buffer
C31_Witness ==
  /\ l_pc = "exit" /\ l_start = Corrupt(ErrFrame, 255) \o HbFrame
  /\ Len(l_out) = 1 /\ l_out[1].type = 221 /\ packet_buf_ = <<>>
  /\ l_n = 2 /\ l_last.kind = "frame" /\ l_last.start_idx = Len(ErrFrame) - 1

\* the frames of the stream that end within the bytes fed so far
FramesFed ==
  SubSeq(rx_stream.frames, 1,
         Cardinality({k \in 1..Len(rx_stream.frames) : rx_stream.ends[k] <= rx_pos}))

\* C37: a stream of valid frames delivered in chunks of any sizes, starting
\* from an empty buffer and never buffering more than 512 bytes: after every
\* call HandleResponse has been called for exactly the frames that are
\* complete in the bytes fed so far, once each and in stream order.
C37_EachFrameOnce == (rx_stream.kind = "frames") => rx_out = FramesFed

\* three frames in three chunks: the last call found a partial frame
\* buffered and delivered it and the frame behind it
C37_Witness ==
  /\ rx_stream.kind = "frames" /\ Len(rx_stream.frames) = 3 /\ AllFed
  /\ rx_ncalls = 3 /\ rx_out = rx_stream.frames
  /\ Len(rx_last.before) > 0 /\ Len(rx_last.out) = 2

====
